---- MODULE Spec2Model ----
(***************************************************************************)
(* The staged menu-extraction pipeline of Siba4442/MenuExtraction:         *)
(*   - bounded_gather and call_openrouter (src/main.py, src/streamlit.py), *)
(*   - the four stage runners run_phase1..run_phase4 (src/main.py),        *)
(*   - the HTTP backend's endpoints over the output files                  *)
(*     (src/backend/main.py),                                              *)
(*   - the Streamlit app's session state (src/streamlit.py).               *)
(***************************************************************************)
EXTENDS Integers, Sequences, FiniteSets, TLC

\* ------------------------------------------------------------------ bounds
MaxLimit == 2     \* MAX_CONCURRENCY is drawn from 1..MaxLimit
MaxBatch == 3     \* coroutines handed to one bounded_gather call
MaxPages == 2     \* pages of a document
MaxCats  == 2     \* categories on one page

\* ------------------------------------------------------------------ state
VARIABLES
  limit,    \* MAX_CONCURRENCY (src/main.py:29), read once at import
  req,      \* req[r]: what handler r is doing on the event loop
  run,      \* the stage run in progress (run_phase1..4 / execute_phase1..4)
  files,    \* the output directory / session state: name -> content, or NoFile
  surface,  \* which application serves the requests: "backend" or "streamlit"
  stale,    \* history: what happened upstream of a stored artifact since it was written
  reply     \* the last request handled and what it answered

vars    == <<limit, req, run, files, surface, stale, reply>>
appvars == <<surface, stale, reply>>

\* Two handlers on one event loop: enough for calls of different requests
\* to be in flight together.
Reqs == {1, 2}

\* ------------------------------------------------------------ JSON values
\* A JSON object is a function from its keys to values; a list is a sequence.
Names    == {"A", "B"}
EmptyObj == [k \in {} |-> ""]

Has(obj, k) == k \in DOMAIN obj

\* ------------------------------------------------------- schema registry
\* The pydantic models of utils/model.py.  extra = "forbid" is
\* src/utils/model.py (CLI, Streamlit); extra = "ignore" is
\* src/backend/utils/model.py (HTTP backend).
Fields(cls) ==
  CASE cls = "SubcategoryRef"     -> {"name_raw"}
    [] cls = "CategoryRef"        -> {"name_raw", "subcategories"}
    [] cls = "Categories"         -> {"categories"}
    [] cls = "CategorywithItems"  -> {"name_raw", "category_items",
                                      "subcategory_items", "note"}
    [] cls = "CategoryBase"       -> {"name_raw", "base_options",
                                      "subcategories_base"}
    [] cls = "CategoryItemAddons" -> {"name_raw", "subcategory_items",
                                      "items_addons"}

\* Fields without a default.  note is "note: str" under forbid and
\* Optional with a default under ignore.
Required(cls, extra) ==
  CASE cls = "Categories"        -> {}
    [] cls = "CategorywithItems" ->
         IF extra = "forbid" THEN {"name_raw", "note"} ELSE {"name_raw"}
    [] OTHER                     -> {"name_raw"}

Default(cls, k) == IF k = "note" THEN "No notes provided" ELSE <<>>

\* The model class of the elements of a list field, where the model checks it.
ElemClass(cls, k) ==
  CASE cls = "Categories" /\ k = "categories"     -> "CategoryRef"
    [] cls = "CategoryRef" /\ k = "subcategories" -> "SubcategoryRef"
    [] OTHER                                       -> "none"

\* One level of model_validate: required fields present, and no unknown
\* field when extra = "forbid".
FlatValid(cls, extra, obj) ==
  /\ Required(cls, extra) \subseteq DOMAIN obj
  /\ extra = "forbid" => DOMAIN obj \subseteq Fields(cls)

\* cls.model_validate(obj) succeeds.
ModelValidate(cls, extra, obj) ==
  /\ FlatValid(cls, extra, obj)
  /\ \A k \in DOMAIN obj \cap Fields(cls) :
        ElemClass(cls, k) # "none" =>
          \A i \in 1..Len(obj[k]) :
            /\ FlatValid(ElemClass(cls, k), extra, obj[k][i])
            /\ \A k2 \in DOMAIN obj[k][i] \cap Fields(ElemClass(cls, k)) :
                  ElemClass(ElemClass(cls, k), k2) # "none" =>
                    \A j \in 1..Len(obj[k][i][k2]) :
                      FlatValid(ElemClass(ElemClass(cls, k), k2), extra,
                                obj[k][i][k2][j])

FlatDump(cls, obj) ==
  [k \in Fields(cls) |-> IF Has(obj, k) THEN obj[k] ELSE Default(cls, k)]

\* A dump that keeps the object as it came.
DumpAsGiven(cls, obj) == obj

\* cls.model_validate(obj).model_dump(): the declared fields only, defaults
\* filled in.
ModelDump(cls, obj) ==
  [k \in Fields(cls) |->
     IF ~Has(obj, k) THEN Default(cls, k)
     ELSE IF ElemClass(cls, k) = "none" THEN obj[k]
     ELSE [i \in 1..Len(obj[k]) |->
             [k2 \in Fields(ElemClass(cls, k)) |->
                IF ~Has(obj[k][i], k2) THEN Default(ElemClass(cls, k), k2)
                ELSE IF ElemClass(ElemClass(cls, k), k2) = "none"
                  THEN obj[k][i][k2]
                ELSE [j \in 1..Len(obj[k][i][k2]) |->
                        FlatDump(ElemClass(ElemClass(cls, k), k2),
                                 obj[k][i][k2][j])]]]]

\* ------------------------------------------------- the inference service
\* What one chat.completions.create call can come back with: it raises
\* (transport/auth failure), or returns a raw text, which is either not JSON
\* or a JSON object.
TransportError == [tag |-> "raise", body |-> EmptyObj]
NotJson        == [tag |-> "text", body |-> EmptyObj]
Json(obj)      == [tag |-> "json", body |-> obj]

\* Objects the service can answer with, per stage.
Cat(n)    == [name_raw |-> n, subcategories |-> <<>>]
Items(n)  == [name_raw |-> n, category_items |-> <<>>,
              subcategory_items |-> <<>>, note |-> "t"]
Base(n)   == [name_raw |-> n, base_options |-> <<>>, subcategories_base |-> <<>>]
Addons(n) == [name_raw |-> n, subcategory_items |-> <<>>, items_addons |-> <<>>]

WithExtra(o)  == [k \in DOMAIN o \cup {"extra"} |-> IF k = "extra" THEN "x" ELSE o[k]]
Without(o, f) == [k \in DOMAIN o \ {f} |-> o[k]]

Unit(phase, n) ==
  CASE phase = 2 -> Items(n)
    [] phase = 3 -> Base(n)
    [] phase = 4 -> Addons(n)

\* The name a category carries in a prompt of stages 2..4.
PromptName(prompt) ==
  IF prompt.template = "phase2.j2"
    THEN prompt.variables.categories.name_raw
    ELSE prompt.variables.category.category.name_raw

\* k categories, named A, B, A, ... by position.
NameAt(i)   == IF i % 2 = 1 THEN "A" ELSE "B"
CatList(k)  == [i \in 1..k |-> Cat(NameAt(i))]
UnitList(phase, k) == [i \in 1..k |-> Unit(phase, NameAt(i))]

\* The raw results the service may produce for a call: schema-conforming
\* ones, one with an unknown field, one lacking name_raw.  A Phase-1 answer
\* lists no category or MaxCats of them; an answer of stages 2..4 names the category
\* it was asked about.
ServiceObjects(coro) ==
  IF coro.format = "Categories"
    THEN {EmptyObj, [categories |-> CatList(MaxCats)],
          WithExtra([categories |-> CatList(1)]),
          [categories |-> <<Without(Cat("A"), "name_raw")>>]}
    ELSE LET ph == CASE coro.format = "CategorywithItems" -> 2
                     [] coro.format = "CategoryBase" -> 3
                     [] OTHER -> 4
             u  == Unit(ph, PromptName(coro.prompt))
         IN {u, WithExtra(u), Without(u, "name_raw")}

Outcomes(coro) == {TransportError, NotJson} \cup {Json(o) : o \in ServiceObjects(coro)}

\* ------------------------------------------------------- bounded_gather
NoResult == [tag |-> "none", body |-> EmptyObj]

Idle ==
  [kind |-> "idle", sem |-> 0, waiters |-> <<>>, task |-> <<>>,
   order |-> <<>>, started |-> <<>>, gathered |-> "none", responses |-> <<>>]

\* asyncio.Semaphore(limit) and one _run task per coroutine, none started.
NewBatch(coros, lim) ==
  [kind |-> "gather", sem |-> lim, waiters |-> <<>>,
   task |-> [i \in 1..Len(coros) |->
               [st |-> "created", coro |-> coros[i], result |-> NoResult]],
   order |-> <<>>, started |-> <<>>,
   gathered |-> IF Len(coros) = 0 THEN "returned" ELSE "pending",
   responses |-> <<>>]

\* The calls of a batch that have started and not yet ended.
InFlight(b) == {i \in 1..Len(b.task) : b.task[i].st = "running"}

Ended(b) == \A i \in 1..Len(b.task) : b.task[i].st \in {"returned", "raised"}

\* The children's results in the order the calls ended.
GatherByCompletion(b) == [i \in 1..Len(b.task) |-> b.task[b.order[i]].result]

\* asyncio.gather's result list: the children's results in argument order.
GatherResults(b) == [i \in 1..Len(b.task) |-> b.task[i].result]

\* A semaphore that looks at its queue only, never at its counter.
LockedByQueueOnly(b) == b.waiters # <<>>

\* Semaphore.locked(): no permit, or somebody is already queued.
Locked(b) == b.sem = 0 \/ b.waiters # <<>>

\* A handler calls bounded_gather(coros, limit).
BoundedGather(r, coros) ==
  /\ req[r].kind = "idle"
  /\ req' = [req EXCEPT ![r] = NewBatch(coros, limit)]
  /\ UNCHANGED limit

\* The event loop runs the next _run task up to its first suspension:
\* "async with sem" takes a permit and the call is issued, or the task queues.
RunTask(r, i) ==
  LET b == req[r] IN
  /\ b.kind = "gather"
  /\ i \in 1..Len(b.task)
  /\ b.task[i].st = "created"
  /\ \A j \in 1..(i-1) : b.task[j].st # "created"
  /\ IF Locked(b)
       THEN req' = [req EXCEPT ![r].task[i].st = "waiting",
                               ![r].waiters = Append(b.waiters, i)]
       ELSE req' = [req EXCEPT ![r].task[i].st = "running",
                               ![r].started = Append(b.started, i),
                               ![r].sem = b.sem - 1]
  /\ UNCHANGED limit

\* A _run that gives its permit back on return only ("await sem.acquire();
\* r = await coro; sem.release()" without try/finally).
CallEndsLeaking(r, i, out) ==
  LET b  == req[r]
      st == IF out = TransportError THEN "raised" ELSE "returned"
      t  == [b.task EXCEPT ![i].st = st, ![i].result = out]
      b2 == [b EXCEPT !.task = t,
                      !.sem = IF st = "raised" THEN b.sem ELSE b.sem + 1,
                      !.order = Append(b.order, i)]
  IN
  /\ b.kind = "gather"
  /\ i \in InFlight(b)
  /\ req' = [req EXCEPT ![r] =
       IF b.gathered # "pending" THEN b2
       ELSE IF st = "raised" THEN [b2 EXCEPT !.gathered = "raised"]
       ELSE IF Ended(b2)
         THEN [b2 EXCEPT !.gathered = "returned", !.responses = GatherResults(b2)]
       ELSE b2]
  /\ UNCHANGED limit

\* The call of task i ends with outcome out; leaving "async with sem"
\* releases the permit on either path, and gather's callback sees the child.
CallEnds(r, i, out) ==
  LET b  == req[r]
      st == IF out = TransportError THEN "raised" ELSE "returned"
      t  == [b.task EXCEPT ![i].st = st, ![i].result = out]
      b2 == [b EXCEPT !.task = t, !.sem = b.sem + 1, !.order = Append(b.order, i)]
  IN
  /\ b.kind = "gather"
  /\ i \in InFlight(b)
  /\ req' = [req EXCEPT ![r] =
       IF b.gathered # "pending" THEN b2
       ELSE IF st = "raised" THEN [b2 EXCEPT !.gathered = "raised"]
       ELSE IF Ended(b2)
         THEN [b2 EXCEPT !.gathered = "returned", !.responses = GatherResults(b2)]
       ELSE b2]
  /\ UNCHANGED limit

\* Semaphore._wake_up_next: the released permit goes to the first waiter,
\* which then issues its call.
WakeUp(r) ==
  LET b == req[r] IN
  /\ b.kind = "gather"
  /\ b.waiters # <<>>
  /\ b.sem > 0
  /\ req' = [req EXCEPT ![r].task[Head(b.waiters)].st = "running",
                        ![r].started = Append(b.started, Head(b.waiters)),
                        ![r].waiters = Tail(b.waiters),
                        ![r].sem = b.sem - 1]
  /\ UNCHANGED limit

\* "await asyncio.gather(...)" raises in the handler that called
\* bounded_gather: the handler is over, the _run tasks stay on the loop.
GatherRaises(r) ==
  /\ req[r].kind = "gather"
  /\ req[r].gathered = "raised"
  /\ req' = [req EXCEPT ![r].gathered = "propagated"]
  /\ UNCHANGED limit

\* A re-extraction handler awaits call_openrouter directly.
DirectCall(r, coro) ==
  /\ req[r].kind = "idle"
  /\ req' = [req EXCEPT ![r] =
       [Idle EXCEPT !.kind = "direct", !.started = <<1>>,
                    !.task = <<[st |-> "running", coro |-> coro, result |-> NoResult]>>,
                    !.gathered = "pending"]]
  /\ UNCHANGED limit

DirectCallEnds(r, out) ==
  LET b == req[r] IN
  /\ b.kind = "direct"
  /\ b.task[1].st = "running"
  /\ req' = [req EXCEPT ![r].task[1].st =
                          IF out = TransportError THEN "raised" ELSE "returned",
                        ![r].task[1].result = out,
                        ![r].gathered =
                          IF out = TransportError THEN "raised" ELSE "returned",
                        ![r].responses =
                          IF out = TransportError THEN <<>> ELSE <<out>>]
  /\ UNCHANGED limit

\* -------------------------------------------------------- stage runners
NoFile == EmptyObj

\* OUTPUT_DIR: categories_all_pages.json, category_items_all_pages.json,
\* category_bases_all_pages.json, category_items_addons_all_pages.json.
OutFile(phase) ==
  CASE phase = 1 -> "categories"
    [] phase = 2 -> "items"
    [] phase = 3 -> "bases"
    [] phase = 4 -> "addons"

StageClass(phase) ==
  CASE phase = 1 -> "Categories"
    [] phase = 2 -> "CategorywithItems"
    [] phase = 3 -> "CategoryBase"
    [] phase = 4 -> "CategoryItemAddons"

Min(a, b) == IF a <= b THEN a ELSE b

\* Python's list[idx] for a list of n elements: the 1-based position read,
\* negative indices counting from the end; IndexError outside -n..n-1.
PyIndexOk(n, idx) == -n <= idx /\ idx < n
\* images[page_number]: the page number itself taken as a list index.
IndexByPageNumber(n, idx) == idx + 2
PyIndex(n, idx)   == IF idx >= 0 THEN idx + 1 ELSE n + idx + 1

\* convert_pdf_into_images: one image per page of the document, in order.
Image(doc, i) == [doc |-> doc, page |-> i]

\* render_prompt(template, **variables): the text is determined by the
\* template and its variables; json.dumps(to_dict(x)) carries the dumped value.
Phase1Prompt(rn, pn) ==
  [template |-> "phase1.j2", restaurant_name |-> rn, page_number |-> pn,
   variables |-> EmptyObj]
Phase2Prompt(rn, pn, cat) ==
  [template |-> "phase2.j2", restaurant_name |-> rn, page_number |-> pn,
   variables |-> [categories |-> cat]]
Phase3Prompt(rn, pn, category) ==
  [template |-> "phase3.j2", restaurant_name |-> rn, page_number |-> pn,
   variables |-> [category |-> category]]
Phase4Prompt(rn, pn, category, category_base) ==
  [template |-> "phase4.j2", restaurant_name |-> rn, page_number |-> pn,
   variables |-> [category |-> category, category_base |-> category_base]]

\* call_openrouter(message_content, response_format), not yet awaited.
Call(prompt, image, cls) == [prompt |-> prompt, image |-> image, format |-> cls]

NoRun ==
  [st |-> "idle", phase |-> 0, extra |-> "forbid", doc |-> [id |-> 0, n |-> 0],
   rn |-> "", input |-> NoFile, input2 |-> NoFile, pi |-> 0, out |-> <<>>,
   responses |-> <<>>, log |-> <<>>]

\* A Phase 1 that gathers once per page like the later phases.
BatchPerPage(rs) ==
  CASE rs.phase = 1 -> rs.doc.n
    [] rs.phase = 4 -> Min(Len(rs.input.pages), Len(rs.input2.pages))
    [] OTHER        -> Len(rs.input.pages)

\* How many bounded_gather batches the run makes: one for Phase 1, one per
\* page otherwise (zip stops at the shorter list in Phase 4).
NumBatches(rs) ==
  CASE rs.phase = 1 -> 1
    [] rs.phase = 4 -> Min(Len(rs.input.pages), Len(rs.input2.pages))
    [] OTHER        -> Len(rs.input.pages)

\* A prompt argument that carries the page's whole category list along with
\* the category.
CategoryWithPage(cats, i) ==
  [name_raw |-> cats[i].name_raw, subcategories |-> cats[i].subcategories,
   page |-> cats]

\* "for cat in page_categories.categories: phase2_prompt(.., cat)": the
\* prompt is given the one category of the iteration.
LoopCategory(cats, i) == cats[i]

\* A fan-out that also takes the subcategories of the page's first category
\* as units of their own.
TopAndSubcategories(page) ==
  LET cats == page.data.categories IN
  IF cats = <<>> THEN cats
  ELSE cats \o [i \in 1..Len(cats[1].subcategories) |->
                 [name_raw |-> cats[1].subcategories[i].name_raw,
                  subcategories |-> <<>>]]

\* page_categories.categories of a validated page: the top-level categories,
\* each carrying its subcategories inside.
PageCategories(page) == ModelDump("Categories", page.data).categories

\* The loop body up to bounded_gather for batch rs.pi: ok is FALSE when a
\* statement before the gather raises (IndexError, KeyError, ValidationError).
BuildCoros(rs) ==
  LET rn == rs.rn IN
  IF rs.phase = 1 THEN
    [ok |-> TRUE,
     coros |-> [i \in 1..rs.doc.n |->
                  Call(Phase1Prompt(rn, i), Image(rs.doc.id, i), "Categories")]]
  ELSE
    LET page == rs.input.pages[rs.pi]
        pn   == page.page_number
        img  == Image(rs.doc.id, PyIndex(rs.doc.n, pn - 1))
    IN
    IF ~PyIndexOk(rs.doc.n, pn - 1) THEN [ok |-> FALSE, coros |-> <<>>]
    ELSE IF rs.phase = 2 THEN
      IF ~(Has(page, "data") /\ ModelValidate("Categories", rs.extra, page.data))
        THEN [ok |-> FALSE, coros |-> <<>>]
        ELSE
          LET cats == PageCategories(page) IN
          [ok |-> TRUE,
           coros |-> [i \in 1..Len(cats) |->
                        Call(Phase2Prompt(rn, pn, LoopCategory(cats, i)), img,
                             "CategorywithItems")]]
    ELSE IF rs.phase = 3 THEN
      IF ~(Has(page, "categories") /\
           \A i \in 1..Len(page.categories) :
             ModelValidate("CategorywithItems", rs.extra, page.categories[i]))
        THEN [ok |-> FALSE, coros |-> <<>>]
        ELSE
          [ok |-> TRUE,
           coros |-> [i \in 1..Len(page.categories) |->
                        Call(Phase3Prompt(rn, pn,
                               [category |-> ModelDump("CategorywithItems",
                                                       page.categories[i])]),
                             img, "CategoryBase")]]
    ELSE
      LET page_base == rs.input2.pages[rs.pi] IN
      IF ~(Has(page, "categories") /\ Has(page_base, "categories"))
        THEN [ok |-> FALSE, coros |-> <<>>]
      ELSE
        LET k == Min(Len(page.categories), Len(page_base.categories)) IN
        IF ~(\A i \in 1..k :
               /\ ModelValidate("CategorywithItems", rs.extra, page.categories[i])
               /\ ModelValidate("CategoryBase", rs.extra, page_base.categories[i]))
          THEN [ok |-> FALSE, coros |-> <<>>]
          ELSE
            [ok |-> TRUE,
             coros |-> [i \in 1..k |->
                          Call(Phase4Prompt(rn, pn,
                                 [category |-> ModelDump("CategorywithItems",
                                                         page.categories[i])],
                                 [category_base |-> ModelDump("CategoryBase",
                                                         page_base.categories[i])]),
                               img, "CategoryItemAddons")]]

\* Decoding without validation.
UnitDecodes(cls, extra, resp) == resp.tag = "json"

\* json.loads(raw) then cls.model_validate(obj) succeed for one response.
UnitOk(cls, extra, resp) ==
  resp.tag = "json" /\ ModelValidate(cls, extra, resp.body)

\* Per-unit isolation: the responses that decode and validate are kept, the
\* others skipped.
ValidateKeepingValid(cls, extra, responses) ==
  LET Good(resp) == UnitOk(cls, extra, resp)
      kept == SelectSeq(responses, Good)
  IN [ok |-> TRUE, results |-> [i \in 1..Len(kept) |-> ModelDump(cls, kept[i].body)]]

\* The validation loop after the gather: every response must decode and
\* validate, and then the results are the dumps, in the order of responses.
ValidateResponses(cls, extra, responses) ==
  IF \A i \in 1..Len(responses) : UnitOk(cls, extra, responses[i])
    THEN [ok |-> TRUE,
          results |-> [i \in 1..Len(responses) |-> ModelDump(cls, responses[i].body)]]
    ELSE [ok |-> FALSE, results |-> <<>>]

\* The unit a batch fails because of: the call whose exception the gather
\* raises, else the first response of the loop that does not decode or does
\* not validate.
NoUnit == [kind |-> "none", page_number |-> 0, category |-> 0]

FailedUnit(rs, responses) ==
  LET extra == rs.extra
      cls == StageClass(rs.phase)
      R == {i \in 1..Len(responses) : responses[i].tag = "raise"}
      B == {i \in 1..Len(responses) : ~UnitOk(cls, extra, responses[i])}
      i == IF R # {} THEN CHOOSE k \in R : \A m \in R : k <= m
                     ELSE CHOOSE k \in B : \A m \in B : k <= m
  IN
  IF B = {} THEN NoUnit
  ELSE [kind |-> CASE responses[i].tag = "raise" -> "transport"
                   [] responses[i].tag = "text"  -> "decode"
                   [] OTHER                      -> "validation",
        page_number |-> IF rs.phase = 1 THEN i
                        ELSE rs.input.pages[rs.pi].page_number,
        category |-> IF rs.phase = 1 THEN 0 ELSE i]

\* What the surface tells about the unit when the run fails.  The Streamlit
\* loops of Phases 1 to 3 catch a decode or validation error, show the page
\* (and the position of the category) and raise again; nothing else names
\* the unit: an exception of the gather is outside the try, Phase 4 of the
\* Streamlit app, the command line and the backend let the exception through.
NoReport == [page_number |-> 0, category |-> 0]

ErrorShown(sf, phase, unit) ==
  IF sf = "streamlit" /\ phase \in 1..3 /\ unit.kind \in {"decode", "validation"}
    THEN [page_number |-> unit.page_number, category |-> unit.category]
    ELSE NoReport

\* A loop that appends a page only when the page gave results.
CollectedWhenAny(rs, results) ==
  IF rs.phase = 1
    THEN [i \in 1..Len(results) |-> [page_number |-> i, data |-> results[i]]]
    ELSE IF results = <<>> THEN rs.out
    ELSE Append(rs.out, [page_number |-> rs.input.pages[rs.pi].page_number,
                         categories  |-> results])

\* The pages the loop has appended once batch rs.pi validated with results.
Collected(rs, results) ==
  IF rs.phase = 1
    THEN [i \in 1..Len(results) |-> [page_number |-> i, data |-> results[i]]]
    ELSE Append(rs.out, [page_number |-> rs.input.pages[rs.pi].page_number,
                         categories  |-> results])

\* The payload a run of the phase is given, from the files on disk.
InFile(phase) ==
  CASE phase = 2 -> "categories"
    [] phase = 3 -> "items"
    [] phase = 4 -> "items"
    [] OTHER     -> "pdf"

\* A loop that is not torn down: the tasks of the batch stay as they are.
LeftAlone(b) == b

\* asyncio.run tears the loop down when the run raises: tasks that have not
\* ended are cancelled, and a cancelled task leaves "async with sem".
Cancelled(b) ==
  [b EXCEPT !.task = [i \in 1..Len(b.task) |->
                        IF b.task[i].st \in {"created", "waiting", "running"}
                          THEN [b.task[i] EXCEPT !.st = "cancelled"]
                          ELSE b.task[i]],
            !.sem = b.sem + Cardinality(InFlight(b)),
            !.waiters = <<>>]

\* main(): load the payload(s) of the chosen phase and enter run_phaseN.
StartRun ==
  /\ run.st = "idle"
  /\ run.phase \in 1..4
  /\ IF /\ files["pdf"] # NoFile
        /\ run.phase > 1 => files[InFile(run.phase)] # NoFile
        /\ run.phase = 4 => files["bases"] # NoFile
       THEN run' = [run EXCEPT
              !.st = "loop", !.pi = 1, !.out = <<>>,
              !.doc = files["pdf"],
              !.input = IF run.phase = 1 THEN NoFile ELSE files[InFile(run.phase)],
              !.input2 = IF run.phase = 4 THEN files["bases"] ELSE NoFile]
       ELSE run' = [run EXCEPT !.st = "raised"]
  /\ UNCHANGED <<limit, req, files, appvars>>

\* One iteration of the page loop up to "await bounded_gather(...)"; the
\* responses of the page before are of no use any more.
SubmitBatch ==
  /\ run.st = "loop"
  /\ run.pi <= NumBatches(run)
  /\ LET built == BuildCoros(run) IN
       IF built.ok
         THEN /\ run' = [run EXCEPT !.st = "await", !.responses = <<>>]
              /\ req' = [req EXCEPT ![1] = NewBatch(built.coros, limit)]
         ELSE /\ run' = [run EXCEPT !.st = "raised"]
              /\ UNCHANGED req
  /\ UNCHANGED <<limit, files, appvars>>

\* History of a batch the loop is done with: the page it was for, the calls it
\* was given, the tasks whose call was issued, in the order of issue, and
\* whether every task had ended.
Batch(rs, b) ==
  [pi |-> rs.pi, coros |-> [i \in 1..Len(b.task) |-> b.task[i].coro],
   started |-> b.started, ended |-> Ended(b)]

\* A loop that goes on to the next page whatever the validation says.
BatchReturnedMovingOn ==
  /\ run.st = "await"
  /\ req[1].gathered = "returned"
  /\ LET v == ValidateResponses(StageClass(run.phase), run.extra, req[1].responses) IN
       run' = [run EXCEPT !.st = "loop", !.pi = run.pi + 1,
                          !.responses = req[1].responses,
                          !.log = Append(run.log, Batch(run, req[1])),
                          !.out = Collected(run, v.results)]
  /\ req' = [req EXCEPT ![1] = Idle]
  /\ UNCHANGED <<limit, files, appvars>>

\* bounded_gather returned: validate the responses and append the page.
BatchReturned ==
  /\ run.st = "await"
  /\ req[1].gathered = "returned"
  /\ LET v == ValidateResponses(StageClass(run.phase), run.extra, req[1].responses) IN
       IF v.ok
         THEN run' = [run EXCEPT !.st = "loop", !.pi = run.pi + 1,
                                 !.responses = req[1].responses,
                                 !.log = Append(run.log, Batch(run, req[1])),
                                 !.out = Collected(run, v.results)]
         ELSE run' = [run EXCEPT !.st = "raised",
                                 !.responses = req[1].responses,
                                 !.log = Append(run.log, Batch(run, req[1]))]
  /\ req' = [req EXCEPT ![1] = Idle]
  /\ UNCHANGED <<limit, files, appvars>>

\* bounded_gather raised: the exception leaves run_phaseN and asyncio.run.
BatchRaised ==
  /\ run.st = "await"
  /\ req[1].gathered = "raised"
  /\ run' = [run EXCEPT !.st = "raised"]
  /\ req' = [req EXCEPT ![1] = Cancelled(req[1])]
  /\ UNCHANGED <<limit, files, appvars>>

\* After the loop: build the envelope, write the stage's file, return it.
FinishRun ==
  /\ run.st = "loop"
  /\ run.pi > NumBatches(run)
  /\ run' = [run EXCEPT !.st = "returned"]
  /\ files' = [files EXCEPT ![OutFile(run.phase)] =
                 [restaurant_name |-> run.rn, pages |-> run.out]]
  /\ UNCHANGED <<limit, req, appvars>>

\* The stored things: the uploaded document (uploaded_menu.pdf /
\* base64_images), the four stage files (phaseK_result in the session), and
\* the backend's reviewed_categories.json.
FileNames == {"pdf", "categories", "reviewed", "items", "bases", "addons"}

NoFiles == [f \in FileNames |-> NoFile]

\* Nothing has happened upstream of anything stored.
NoStale == [f \in FileNames |-> {}]

\* No request handled yet.
NoReply ==
  [op |-> "none", phase |-> 0, status |-> 0, detail |-> "", called |-> FALSE,
   used |-> {}, cleared |-> {}, carried |-> {}, before |-> NoStale,
   page_number |-> 0, category_name |-> "", prompt |-> EmptyObj,
   image |-> Image(0, 0), answer |-> NoResult, body |-> EmptyObj,
   failed |-> NoUnit, shown |-> NoReport]

\* ------------------------------------------- the event loop (SpecGather)
AbstractCoros(n) ==
  [i \in 1..n |-> Call(Phase1Prompt("R", i), Image(1, i), "Categories")]

InitGather ==
  /\ limit \in 1..MaxLimit
  /\ req = [r \in Reqs |-> Idle]
  /\ run = NoRun
  /\ files = NoFiles
  /\ surface = "backend"
  /\ stale = NoStale
  /\ reply = NoReply

NextGather ==
  \/ \E r \in Reqs, n \in 0..MaxBatch :
       BoundedGather(r, AbstractCoros(n)) /\ UNCHANGED <<run, files, appvars>>
  \/ \E r \in Reqs, i \in 1..MaxBatch :
       RunTask(r, i) /\ UNCHANGED <<run, files, appvars>>
  \/ \E r \in Reqs, i \in 1..MaxBatch, out \in {TransportError, NotJson} :
       CallEnds(r, i, out) /\ UNCHANGED <<run, files, appvars>>
  \/ \E r \in Reqs : WakeUp(r) /\ UNCHANGED <<run, files, appvars>>
  \/ \E r \in Reqs :
       DirectCall(r, Call(Phase2Prompt("R", 1, Cat("A")), Image(1, 1),
                          "CategorywithItems"))
         /\ UNCHANGED <<run, files, appvars>>
  \/ \E r \in Reqs, out \in {TransportError, NotJson} :
       DirectCallEnds(r, out) /\ UNCHANGED <<run, files, appvars>>

SpecGather == InitGather /\ [][NextGather]_vars

\* ------------------------------- one handler of the server (SpecServe)
\* A stage handler of the backend on the server's event loop, which outlives
\* the handler: its batch, and the moment the gather raises in the handler.
NextServe ==
  \/ \E n \in 0..MaxBatch :
       BoundedGather(1, AbstractCoros(n)) /\ UNCHANGED <<run, files, appvars>>
  \/ \E i \in 1..MaxBatch :
       RunTask(1, i) /\ UNCHANGED <<run, files, appvars>>
  \/ \E i \in 1..MaxBatch, out \in {TransportError, NotJson} :
       CallEnds(1, i, out) /\ UNCHANGED <<run, files, appvars>>
  \/ WakeUp(1) /\ UNCHANGED <<run, files, appvars>>
  \/ GatherRaises(1) /\ UNCHANGED <<run, files, appvars>>

SpecServe == InitGather /\ [][NextServe]_vars

\* ------------------------------------------------ one stage run (SpecRun)
\* The elements of a set of numbers in increasing order.
Sorted(S) ==
  [i \in 1..Cardinality(S) |->
     CHOOSE x \in S : Cardinality({y \in S : y < x}) = i - 1]

\* Page-number lists an artifact over a document of n pages can carry: as a
\* stage wrote them (1..n), with pages dropped or reversed by an edit, or
\* with a number outside the document.
PageNumberLists(n) ==
  {Sorted(S) : S \in SUBSET (1..n)}
    \cup {[i \in 1..n |-> n + 1 - i], <<0>>, <<n + 1>>}

\* k top-level categories as Phase 1 stores them: the first one has a
\* subcategory, the others none.
TreeList(k) ==
  [i \in 1..k |-> IF i = 1
                    THEN [name_raw |-> "A", subcategories |-> <<[name_raw |-> "B"]>>]
                    ELSE Cat(NameAt(i))]

\* An envelope whose page i has number nums[i] and k[i] units.
Stage1Artifact(nums, k) ==
  [restaurant_name |-> "R",
   pages |-> [i \in DOMAIN nums |->
                [page_number |-> nums[i], data |-> [categories |-> TreeList(k[i])]]]]

StageArtifact(phase, nums, k) ==
  [restaurant_name |-> "R",
   pages |-> [i \in DOMAIN nums |->
                [page_number |-> nums[i], categories |-> UnitList(phase, k[i])]]]

Clamp(x) == IF x < 0 THEN 0 ELSE x

\* How many units each page carries: the same number on every page, or
\* MaxCats on the first page only, or on every page but the first.
UnitCounts(nums) ==
  {[i \in DOMAIN nums |-> c] : c \in 0..MaxCats}
    \cup {[i \in DOMAIN nums |-> IF i = 1 THEN MaxCats ELSE 0],
          [i \in DOMAIN nums |-> IF i = 1 THEN 0 ELSE MaxCats]}

\* The CLI is started for one phase on an output directory holding the
\* files of the earlier phases.  For Phase 4 the bases file follows the items
\* file page by page, or has lost its first page, its last page or a page's
\* last unit.
InitRun ==
  /\ limit \in 1..MaxLimit
  /\ req = [r \in Reqs |-> Idle]
  /\ surface = "cli"
  /\ stale = NoStale
  /\ reply = NoReply
  /\ \E ph \in 1..4, ex \in {"forbid", "ignore"}, n \in 1..MaxPages :
       /\ run = [NoRun EXCEPT !.phase = ph, !.extra = ex, !.rn = "R"]
       /\ \/ /\ ph = 1
             /\ files = [NoFiles EXCEPT !["pdf"] = [id |-> 1, n |-> n]]
          \/ /\ ph = 2
             /\ \E nums \in PageNumberLists(n) :
                  \E k \in UnitCounts(nums) :
                    files = [NoFiles EXCEPT
                      !["pdf"] = [id |-> 1, n |-> n],
                      !["categories"] = Stage1Artifact(nums, k)]
          \/ /\ ph = 3
             /\ \E nums \in PageNumberLists(n) :
                  \E k \in UnitCounts(nums) :
                    files = [NoFiles EXCEPT
                      !["pdf"] = [id |-> 1, n |-> n],
                      !["items"] = StageArtifact(2, nums, k)]
          \/ /\ ph = 4
             /\ \E nums \in PageNumberLists(n) :
                  \E k \in UnitCounts(nums),
                     lost \in {<<0, 0, 0>>, <<0, 1, 0>>, <<0, 0, 1>>, <<1, 0, 0>>} :
                    files = [NoFiles EXCEPT
                      !["pdf"] = [id |-> 1, n |-> n],
                      !["items"] = StageArtifact(2, nums, k),
                      !["bases"] = StageArtifact(3,
                                     SubSeq(nums, 1 + lost[1],
                                            Clamp(Len(nums) - lost[2])),
                                     [i \in DOMAIN nums |->
                                        Clamp(k[Min(i + lost[1], Len(nums))]
                                                - lost[3])])]

NextRun ==
  \/ StartRun
  \/ SubmitBatch
  \/ \E i \in 1..Len(req[1].task) : RunTask(1, i) /\ UNCHANGED <<run, files, appvars>>
  \/ \E i \in 1..Len(req[1].task) : \E out \in Outcomes(req[1].task[i].coro) :
       CallEnds(1, i, out) /\ UNCHANGED <<run, files, appvars>>
  \/ WakeUp(1) /\ UNCHANGED <<run, files, appvars>>
  \/ BatchReturned
  \/ BatchRaised
  \/ FinishRun

SpecRun == InitRun /\ [][NextRun]_vars

\* ------------------------- one stage run to its end (SpecLive)
\* MAX_CONCURRENCY = int(os.getenv("MAX_CONCURRENCY", "4")): any integer the
\* environment gives, zero included; Phase 1 or Phase 2 over the document.
InitLive ==
  /\ limit \in 0..MaxLimit
  /\ req = [r \in Reqs |-> Idle]
  /\ surface = "cli"
  /\ stale = NoStale
  /\ reply = NoReply
  /\ \E ph \in 1..2, n \in 1..MaxPages :
       /\ run = [NoRun EXCEPT !.phase = ph, !.extra = "forbid", !.rn = "R"]
       /\ \/ /\ ph = 1
             /\ files = [NoFiles EXCEPT !["pdf"] = [id |-> 1, n |-> n]]
          \/ /\ ph = 2
             /\ \E k \in UnitCounts(Sorted(1..n)) :
                  files = [NoFiles EXCEPT
                    !["pdf"] = [id |-> 1, n |-> n],
                    !["categories"] = Stage1Artifact(Sorted(1..n), k)]

\* The event loop runs every task that is ready, every call returns or
\* raises in the end, and the run itself goes on whenever it can.
FairRun ==
  /\ WF_vars(StartRun)
  /\ WF_vars(SubmitBatch)
  /\ WF_vars(\E i \in 1..Len(req[1].task) :
               RunTask(1, i) /\ UNCHANGED <<run, files, appvars>>)
  /\ WF_vars(\E i \in 1..Len(req[1].task) :
               \E out \in Outcomes(req[1].task[i].coro) :
                 CallEnds(1, i, out) /\ UNCHANGED <<run, files, appvars>>)
  /\ WF_vars(WakeUp(1) /\ UNCHANGED <<run, files, appvars>>)
  /\ WF_vars(BatchReturned)
  /\ WF_vars(BatchRaised)
  /\ WF_vars(FinishRun)

SpecLive == InitLive /\ [][NextRun]_vars /\ FairRun

\* ------------------------------------- the two applications (SpecApp)
\* What the service does during one request: "well" answers every call
\* with the schema-conforming object, "wordy" with that object and a field more, "odd" with JSON lacking
\* name_raw,
\* "down" raises.
Services == {"well", "wordy", "odd", "down"}

WellObject(coro) ==
  CASE coro.format = "Categories"        -> [categories |-> CatList(MaxCats)]
    [] coro.format = "CategorywithItems" -> Unit(2, PromptName(coro.prompt))
    [] coro.format = "CategoryBase"      -> Unit(3, PromptName(coro.prompt))
    [] OTHER                             -> Unit(4, PromptName(coro.prompt))

Answer(svc, coro) ==
  CASE svc = "down" -> TransportError
    [] svc = "wordy" -> Json(WithExtra(WellObject(coro)))
    [] svc = "odd"  -> Json(IF coro.format = "Categories"
                              THEN [categories |-> <<Without(Cat("A"), "name_raw")>>]
                              ELSE Without(WellObject(coro), "name_raw"))
    [] OTHER        -> Json(WellObject(coro))

\* The models in force: src/utils/model.py for the CLI and the Streamlit app,
\* src/backend/utils/model.py for the backend.
Extra(sf) == IF sf = "backend" THEN "ignore" ELSE "forbid"

\* run_phaseN / execute_phaseN from batch rs.pi to the end, every call
\* answered by svc: whether it returns, its pages, and whether a call was
\* issued.
NotRun ==
  [ok |-> FALSE, out |-> <<>>, called |-> FALSE, carried |-> {},
   failed |-> NoUnit]

RECURSIVE RunPages(_, _)
RunPages(rs, svc) ==
  IF rs.pi > NumBatches(rs)
    THEN [ok |-> TRUE, out |-> rs.out, called |-> FALSE, carried |-> {},
          failed |-> NoUnit]
  ELSE
    LET built == BuildCoros(rs) IN
    IF ~built.ok THEN NotRun
    ELSE
      LET responses == [i \in 1..Len(built.coros) |-> Answer(svc, built.coros[i])]
          v == ValidateResponses(StageClass(rs.phase), rs.extra, responses)
          names == IF rs.phase = 1 THEN {}
                   ELSE {PromptName(built.coros[i].prompt) :
                           i \in 1..Len(built.coros)}
      IN
      IF ~v.ok THEN [ok |-> FALSE, out |-> <<>>, called |-> built.coros # <<>>,
                     carried |-> names, failed |-> FailedUnit(rs, responses)]
      ELSE
        LET rest == RunPages([rs EXCEPT !.pi = rs.pi + 1,
                                        !.out = Collected(rs, v.results)], svc)
        IN [rest EXCEPT !.called = rest.called \/ built.coros # <<>>,
                        !.carried = rest.carried \cup names]

\* A whole stage run over a document and its input artifact(s).
RunStage(phase, sf, doc, rn, input, input2, svc) ==
  RunPages([NoRun EXCEPT !.st = "loop", !.phase = phase, !.extra = Extra(sf),
                         !.doc = doc, !.rn = rn, !.input = input,
                         !.input2 = input2, !.pi = 1], svc)

\* Position of a stored thing in the pipeline.
Rank(f) ==
  CASE f = "pdf" -> 0
    [] f = "categories" -> 1
    [] f = "reviewed" -> 2
    [] f = "items" -> 3
    [] f = "bases" -> 4
    [] f = "addons" -> 5

\* History after the names in W were written, leaving the store fs.  What
\* was written is fresh.  What exists further down remembers the cause:
\* "run" when a stage was run again, "edit" when an edit wrote the Stage-2
\* artifact; other writes (a first run, an upload, other edits) are not
\* remembered.
Staled(st, fs, W, cause) ==
  [f \in FileNames |->
     IF f \in W \/ fs[f] = NoFile THEN {}
     ELSE IF (\E w \in W : Rank(w) < Rank(f)) /\ cause \in {"run", "edit"}
       THEN st[f] \cup {cause}
     ELSE st[f]]

\* A stage run that writes over its earlier artifact is a re-run.
RunCause(fs, phase) == IF fs[OutFile(phase)] # NoFile THEN "run" ELSE "other"

\* The names in K that are stored.
Present(fs, K) == {f \in K : fs[f] # NoFile}

\* A pop that removes nothing.
NothingPopped(fs, K) == fs

\* The store after the names in K were popped.
Popped(fs, K) == [f \in FileNames |-> IF f \in K THEN NoFile ELSE fs[f]]

\* Documents that can be uploaded: two different ones, of MaxPages pages.
Docs == {[id |-> d, n |-> MaxPages] : d \in {1, 2}}

\* Requests are handled one at a time, each handler in one step: a handler
\* starts when the previous answer has gone out.
Ready == reply = NoReply

\* ---- the HTTP backend (src/backend/main.py)
Reply(op, phase, status, detail, called, used) ==
  [NoReply EXCEPT !.op = op, !.phase = phase, !.status = status,
                  !.detail = detail, !.called = called, !.used = used,
                  !.before = stale]

\* Stage 2 reading the Stage-1 output as the run left it.
RawInputs(phase) ==
  CASE phase = 2 -> <<"categories">>
    [] phase = 3 -> <<"items">>
    [] phase = 4 -> <<"items", "bases">>

\* The files a stage of the backend reads, in the order it checks them.
BackendInputs(phase) ==
  CASE phase = 2 -> <<"reviewed">>
    [] phase = 3 -> <<"items">>
    [] phase = 4 -> <<"items", "bases">>

RequiredFiles(phase) == BackendInputs(phase) \o <<"pdf">>

Range(seq) == {seq[i] : i \in 1..Len(seq)}

\* A check that lets every request through.
CheckNothing(fs, paths) == ""

\* check_required_files: the error of the first path that does not exist.
CheckRequiredFiles(fs, paths) ==
  LET missing == {i \in 1..Len(paths) : fs[paths[i]] = NoFile} IN
  IF missing = {} THEN ""
  ELSE LET i == CHOOSE j \in missing : \A k \in missing : j <= k IN
       IF paths[i] = "pdf" THEN "PDF not found"
                           ELSE "Required file not found"

\* extract_categories: store the upload, run Phase 1, save its result.
ExtractCategories(doc, svc) ==
  /\ Ready
  /\ surface = "backend"
  /\ IF doc = NoFile
       THEN /\ reply' = Reply("run", 1, 400, "Empty PDF file", FALSE, {})
            /\ UNCHANGED <<files, stale>>
       ELSE
         LET r == RunStage(1, surface, doc, "R", NoFile, NoFile, svc) IN
         IF r.ok
           THEN /\ files' = [files EXCEPT
                       !["pdf"] = doc,
                       !["categories"] = [restaurant_name |-> "R", pages |-> r.out]]
                /\ stale' = Staled(stale, files', {"pdf", "categories"},
                                    RunCause(files, 1))
                /\ reply' = Reply("run", 1, 200, "", r.called, {"pdf"})
           ELSE /\ files' = [files EXCEPT !["pdf"] = doc]
                /\ stale' = Staled(stale, files', {"pdf"}, "other")
                /\ reply' = [Reply("run", 1, 500, "exception", r.called, {"pdf"})
                               EXCEPT !.failed = r.failed,
                                      !.shown = ErrorShown(surface, 1, r.failed)]
  /\ UNCHANGED <<limit, req, run, surface>>

\* extract_items / extract_bases / extract_addons.
ExtractStage(phase, svc) ==
  LET ins == BackendInputs(phase)
      err == CheckRequiredFiles(files, RequiredFiles(phase))
  IN
  /\ Ready
  /\ surface = "backend"
  /\ IF err # ""
       THEN /\ reply' = Reply("run", phase, 400, err, FALSE, {})
            /\ UNCHANGED <<files, stale>>
     ELSE IF \E i \in 1..Len(ins) : files[ins[i]] = NoFile
       THEN /\ reply' = Reply("run", phase, 404, "not found", FALSE, {})
            /\ UNCHANGED <<files, stale>>
     ELSE IF files["pdf"] = NoFile
       THEN /\ reply' = Reply("run", phase, 500, "exception", FALSE, Range(ins))
            /\ UNCHANGED <<files, stale>>
     ELSE
       LET in1 == files[ins[1]]
           in2 == IF phase = 4 THEN files["bases"] ELSE NoFile
           r   == RunStage(phase, surface, files["pdf"], in1.restaurant_name,
                           in1, in2, svc)
       IN
       IF r.ok
         THEN /\ files' = [files EXCEPT ![OutFile(phase)] =
                             [restaurant_name |-> in1.restaurant_name,
                              pages |-> r.out]]
              /\ stale' = Staled(stale, files', {OutFile(phase)},
                                  RunCause(files, phase))
              /\ reply' = [Reply("run", phase, 200, "", r.called, Range(ins))
                             EXCEPT !.carried = r.carried]
         ELSE /\ reply' = [Reply("run", phase, 500, "exception", r.called,
                                 Range(ins))
                             EXCEPT !.carried = r.carried, !.failed = r.failed,
                                    !.shown = ErrorShown(surface, phase, r.failed)]
              /\ UNCHANGED <<files, stale>>
  /\ UNCHANGED <<limit, req, run, surface>>

\* The file a get endpoint reads.
GetTarget(phase) == OutFile(phase)

\* load_json_file: 404 when the file does not exist, else its content.
LoadJsonFile(fs, f) ==
  IF fs[f] = NoFile THEN [status |-> 404, data |-> EmptyObj]
                    ELSE [status |-> 200, data |-> fs[f]]

\* get_phase1_categories / get_phase2_items / get_phase3_bases /
\* get_phase4_addons.
GetArtifact(phase) ==
  LET r == LoadJsonFile(files, GetTarget(phase)) IN
  /\ Ready
  /\ surface = "backend"
  /\ reply' = [Reply("get", phase, r.status,
                     IF r.status = 404 THEN "not found" ELSE "", FALSE, {})
                 EXCEPT !.body = r.data]
  /\ UNCHANGED <<limit, req, run, files, surface, stale>>

\* The file an update endpoint writes, and the model it validates units with.
UpdateTarget(phase) ==
  CASE phase = 1 -> "reviewed"
    [] phase = 2 -> "items"
    [] phase = 3 -> "bases"

\* The units of one page of a payload are all valid for the endpoint.
PageValid(phase, page) ==
  IF phase = 1
    THEN ModelValidate("Categories", "ignore", page.data)
    ELSE \A i \in 1..Len(page.categories) :
           ModelValidate(StageClass(phase), "ignore", page.categories[i])

PageKey(phase) == IF phase = 1 THEN "data" ELSE "categories"

\* update_phase1_categories / update_phase2_items / update_phase3_bases:
\* the status of the validation loop, pages in order.
UpdateStatus(phase, payload) ==
  IF ~Has(payload, "pages") THEN 400
  ELSE
    LET bad == {i \in 1..Len(payload.pages) :
                  \/ ~Has(payload.pages[i], PageKey(phase))
                  \/ ~PageValid(phase, payload.pages[i])}
    IN IF bad = {} THEN 200
       ELSE LET i == CHOOSE j \in bad : \A k \in bad : j <= k IN
            IF ~Has(payload.pages[i], PageKey(phase)) THEN 400 ELSE 500

\* What save_json_file is given: payload.model_dump() of the two-field
\* payload models, the raw dict for update_phase3_bases.
Saved(phase, payload) ==
  IF phase = 3 THEN payload
  ELSE [restaurant_name |-> payload.restaurant_name, pages |-> payload.pages]

UpdateArtifact(phase, payload) ==
  LET status == UpdateStatus(phase, payload) IN
  /\ Ready
  /\ surface = "backend"
  /\ IF status = 200
       THEN /\ files' = [files EXCEPT ![UpdateTarget(phase)] = Saved(phase, payload)]
            /\ stale' = Staled(stale, files', {UpdateTarget(phase)},
                                IF phase = 2 THEN "edit" ELSE "other")
            /\ reply' = Reply("edit", phase, 200, "", FALSE, {})
       ELSE /\ reply' = Reply("edit", phase, status,
                              IF status = 400 THEN "Invalid payload structure"
                                              ELSE "exception", FALSE, {})
            /\ UNCHANGED <<files, stale>>
  /\ UNCHANGED <<limit, req, run, surface>>

\* "for cat in cats: if cat["name"] == category_name: ... break": the scan
\* stops at the first category that lacks the key "name" (KeyError) or whose
\* "name" equals category_name.
Lookup(cats, cn) ==
  LET hits == {i \in 1..Len(cats) : ~Has(cats[i], "name") \/ cats[i]["name"] = cn} IN
  IF hits = {} THEN [st |-> "none", cat |-> EmptyObj]
  ELSE LET i == CHOOSE j \in hits : \A k \in hits : j <= k IN
       IF ~Has(cats[i], "name") THEN [st |-> "keyerror", cat |-> EmptyObj]
                                ELSE [st |-> "found", cat |-> cats[i]]

PageCats(phase, page) == IF phase = 2 THEN page.data.categories ELSE page.categories

\* The page and category search of a re-extraction in one artifact.  Stages
\* 2 and 3 stop at the first page with the number; Stage 4 scans every page
\* with the number and keeps the last category found.
Locate(phase, art, pn, cn) ==
  LET M == {j \in 1..Len(art.pages) : art.pages[j].page_number = pn}
      L(j) == Lookup(PageCats(phase, art.pages[j]), cn)
  IN
  IF M = {} THEN [st |-> IF phase = 4 THEN "none" ELSE "nopage", cat |-> EmptyObj]
  ELSE IF phase # 4 THEN L(CHOOSE j \in M : \A k \in M : j <= k)
  ELSE IF \E j \in M : L(j).st = "keyerror" THEN [st |-> "keyerror", cat |-> EmptyObj]
  ELSE LET F == {j \in M : L(j).st = "found"} IN
       IF F = {} THEN [st |-> "none", cat |-> EmptyObj]
       ELSE L(CHOOSE j \in F : \A k \in F : k <= j)

\* The prompt of a re-extraction, from the stored category dicts as they are.
ReextractPrompt(phase, rn, pn, cat, cat_base) ==
  CASE phase = 2 -> Phase2Prompt(rn, pn, cat)
    [] phase = 3 -> Phase3Prompt(rn, pn, [category |-> cat])
    [] phase = 4 -> Phase4Prompt(rn, pn, [category |-> cat],
                                 [category_base |-> cat_base])

\* reextract_category_items / reextract_category_base /
\* reextract_category_addons.
Reextract(phase, pn, cn, svc) ==
  LET ins  == BackendInputs(phase)
      err  == CheckRequiredFiles(files, RequiredFiles(phase))
      rq   == [Reply("reextract", phase, 0, "", FALSE, {}) EXCEPT
                 !.page_number = pn, !.category_name = cn]
      Fail(status, detail, used) ==
        [rq EXCEPT !.status = status, !.detail = detail, !.used = used]
  IN
  /\ Ready
  /\ surface = "backend"
  /\ IF err # "" THEN reply' = Fail(400, err, {})
     ELSE IF \E i \in 1..Len(ins) : files[ins[i]] = NoFile
       THEN reply' = Fail(404, "not found", {})
     ELSE
       LET in1 == files[ins[1]]
           t1  == Locate(phase, in1, pn, cn)
           t2  == IF phase = 4 THEN Locate(phase, files["bases"], pn, cn) ELSE t1
           doc == files["pdf"]
       IN
       IF t1.st = "nopage" THEN reply' = Fail(404, "Page not found", Range(ins))
       ELSE IF t1.st = "keyerror" \/ t2.st = "keyerror"
         THEN reply' = Fail(500, "KeyError", Range(ins))
       ELSE IF t1.st = "none" \/ t2.st = "none"
         THEN reply' = Fail(404, "Category not found", Range(ins))
       ELSE IF doc = NoFile \/ ~PyIndexOk(doc.n, pn - 1)
         THEN reply' = Fail(500, "exception", Range(ins))
       ELSE
         LET cls  == StageClass(phase)
             coro == Call(ReextractPrompt(phase, in1.restaurant_name, pn,
                                          t1.cat, t2.cat),
                          Image(doc.id, PyIndex(doc.n, pn - 1)), cls)
             out  == Answer(svc, coro)
         IN
         IF UnitOk(cls, Extra(surface), out)
           THEN reply' = [rq EXCEPT !.status = 200, !.called = TRUE,
                                    !.used = Range(ins), !.answer = out,
                                    !.prompt = coro.prompt,
                                    !.image = coro.image,
                                    !.body = ModelDump(cls, out.body)]
           ELSE reply' = [rq EXCEPT !.status = 500, !.detail = "exception",
                                    !.called = TRUE, !.used = Range(ins),
                                    !.prompt = coro.prompt,
                                    !.image = coro.image, !.answer = out]
  /\ UNCHANGED <<limit, req, run, files, surface, stale>>

\* ---- the Streamlit app (src/streamlit.py, main)
\* A session that clears nothing.
NoDownstream(K) == {}

\* The keys popped after stage K is run or edited (K = 0: after an upload).
DownstreamKeys(K) == {OutFile(J) : J \in (K + 1)..4}

\* The session keys a Run button needs to be enabled.
ButtonNeeds(K) ==
  CASE K = 1 -> {"pdf"}
    [] K = 2 -> {"pdf", "categories"}
    [] K = 3 -> {"pdf", "items"}
    [] K = 4 -> {"pdf", "items", "bases"}

\* Files the uploader can be given: the documents, and a third one that is
\* another file under the name and with the byte length of the first.
Uploads == Docs \cup {[id |-> 3, n |-> MaxPages]}

\* token = (uploaded_pdf.name, len(pdf_bytes)); pdf_token is written
\* together with base64_images, so the session's token is that of the
\* document whose images it holds.
PdfToken(doc) ==
  IF doc = NoFile THEN <<"", 0>>
  ELSE <<IF doc.id = 2 THEN "b.pdf" ELSE "a.pdf", doc.n>>

\* The file uploader holds doc.  A token other than the session's: convert,
\* store the images, clear every result.  The same token: nothing is done.
Upload(doc) ==
  /\ Ready
  /\ surface = "streamlit"
  /\ files["pdf"] # doc
  /\ IF PdfToken(doc) # PdfToken(files["pdf"])
       THEN /\ files' = [Popped(files, DownstreamKeys(0)) EXCEPT !["pdf"] = doc]
            /\ stale' = Staled(stale, files', {"pdf"}, "other")
            /\ reply' = [Reply("upload", 0, 200, "", FALSE, {}) EXCEPT
                           !.cleared = Present(files, DownstreamKeys(0)),
                           !.body = doc]
       ELSE /\ reply' = [Reply("upload", 0, 0, "same token", FALSE, {}) EXCEPT
                           !.body = doc]
            /\ UNCHANGED <<files, stale>>
  /\ UNCHANGED <<limit, req, run, surface>>

\* "Run Phase K": disabled unless its inputs are in the session; an
\* exception of execute_phaseK leaves the session as it was.
RunButton(K, svc) ==
  /\ Ready
  /\ surface = "streamlit"
  /\ IF \E f \in ButtonNeeds(K) : files[f] = NoFile
       THEN /\ reply' = Reply("run", K, 0, "disabled", FALSE, {})
            /\ UNCHANGED <<files, stale>>
       ELSE
         LET in1 == IF K = 1 THEN NoFile ELSE files[InFile(K)]
             in2 == IF K = 4 THEN files["bases"] ELSE NoFile
             r   == IF (K > 1 /\ ~Has(in1, "pages")) \/ (K = 4 /\ ~Has(in2, "pages"))
                      THEN NotRun
                      ELSE RunStage(K, surface, files["pdf"], "R", in1, in2, svc)
         IN
         IF r.ok
           THEN /\ files' = [Popped(files, DownstreamKeys(K)) EXCEPT
                               ![OutFile(K)] = [restaurant_name |-> "R",
                                                pages |-> r.out]]
                /\ stale' = Staled(stale, files', {OutFile(K)}, RunCause(files, K))
                /\ reply' = [Reply("run", K, 200, "", r.called, ButtonNeeds(K))
                               EXCEPT !.cleared = Present(files, DownstreamKeys(K)),
                                      !.carried = r.carried]
           ELSE /\ reply' = [Reply("run", K, 500, "exception", r.called,
                                   ButtonNeeds(K))
                               EXCEPT !.carried = r.carried, !.failed = r.failed,
                                      !.shown = ErrorShown(surface, K, r.failed)]
                /\ UNCHANGED <<files, stale>>
  /\ UNCHANGED <<limit, req, run, surface>>

\* An editor that clears the downstream keys before it parses the text.
ApplyEditClearingFirst(K, text) ==
  /\ Ready
  /\ surface = "streamlit"
  /\ files[OutFile(K)] # NoFile
  /\ IF text.tag = "json"
       THEN /\ files' = [Popped(files, DownstreamKeys(K)) EXCEPT
                           ![OutFile(K)] = text.body]
            /\ stale' = Staled(stale, files', {OutFile(K)},
                                IF K = 2 THEN "edit" ELSE "other")
            /\ reply' = [Reply("edit", K, 200, "", FALSE, {}) EXCEPT
                           !.cleared = Present(files, DownstreamKeys(K)),
                           !.answer = text]
       ELSE /\ files' = Popped(files, DownstreamKeys(K))
            /\ stale' = stale
            /\ reply' = [Reply("edit", K, 400, "Invalid JSON", FALSE, {})
                           EXCEPT !.answer = text]
  /\ UNCHANGED <<limit, req, run, surface>>

\* _editable_json behind "if phaseK_result:": text that parses replaces the
\* result and clears the downstream keys; text that does not is reported.
ApplyEdit(K, text) ==
  /\ Ready
  /\ surface = "streamlit"
  /\ files[OutFile(K)] # NoFile
  /\ IF text.tag = "json"
       THEN /\ files' = [Popped(files, DownstreamKeys(K)) EXCEPT
                           ![OutFile(K)] = text.body]
            /\ stale' = Staled(stale, files', {OutFile(K)},
                                IF K = 2 THEN "edit" ELSE "other")
            /\ reply' = [Reply("edit", K, 200, "", FALSE, {}) EXCEPT
                           !.cleared = Present(files, DownstreamKeys(K)),
                           !.answer = text]
       ELSE /\ reply' = [Reply("edit", K, 400, "Invalid JSON", FALSE, {})
                           EXCEPT !.answer = text]
            /\ UNCHANGED <<files, stale>>
  /\ UNCHANGED <<limit, req, run, surface>>

\* ---- requests (SpecApp)
PayloadUnit(phase, n) == IF phase = 1 THEN Cat(n) ELSE Unit(phase, n)

\* A stored dict that also carries the key "name".
Named(u, m) == [k \in DOMAIN u \cup {"name"} |-> IF k = "name" THEN m ELSE u[k]]

\* An envelope of one page, number 1, with one unit.
PayloadOf(phase, u) ==
  [restaurant_name |-> "R",
   pages |-> <<IF phase = 1
                 THEN [page_number |-> 1, data |-> [categories |-> <<u>>]]
                 ELSE [page_number |-> 1, categories |-> <<u>>]>>]

\* A page without "data" / "categories".
InvalidPayload == [restaurant_name |-> "R", pages |-> <<[page_number |-> 1]>>]

\* What a client of the backend sends for stage phase besides the stored
\* artifact as it is: one unit with an added "name" of B (the category tree's
\* one category renamed to B, the unit A of the later stages), a unit without
\* name_raw, a page without its units; for the bases, a body without
\* restaurant_name.
Payloads(phase) ==
  {PayloadOf(phase, Named(PayloadUnit(phase, IF phase = 1 THEN "B" ELSE "A"), "B")),
   PayloadOf(phase, Without(PayloadUnit(phase, "A"), "name_raw")),
   InvalidPayload}
    \cup (IF phase = 3
            THEN {Without(PayloadOf(phase, PayloadUnit(phase, "A")),
                          "restaurant_name")}
            ELSE {})

\* The text in the editor when "Apply" is pressed: not JSON, an empty
\* object, the one unit renamed to B, the one unit with name_raw deleted.
EditTexts(K) ==
  {NotJson, Json(EmptyObj), Json(PayloadOf(K, PayloadUnit(K, "B"))),
   Json(PayloadOf(K, Without(PayloadUnit(K, "A"), "name_raw")))}

InitApp ==
  /\ limit = MaxLimit
  /\ req = [r \in Reqs |-> Idle]
  /\ run = NoRun
  /\ files = NoFiles
  /\ surface \in {"backend", "streamlit"}
  /\ stale = NoStale
  /\ reply = NoReply

\* The answer goes out to the client (the page is rendered again).
Respond ==
  /\ reply # NoReply
  /\ reply' = NoReply
  /\ UNCHANGED <<limit, req, run, files, surface, stale>>

NextApp ==
  \/ \E doc \in Docs \cup {NoFile}, svc \in Services : ExtractCategories(doc, svc)
  \/ \E phase \in 2..4, svc \in Services : ExtractStage(phase, svc)
  \/ \E phase \in 1..4 : GetArtifact(phase)
  \/ \E phase \in 1..3 :
       \E payload \in Payloads(phase) \cup ({files[OutFile(phase)]} \ {NoFile}) :
         UpdateArtifact(phase, payload)
  \/ \E phase \in 2..4, pn \in {1, MaxPages + 1}, cn \in Names, svc \in Services :
       Reextract(phase, pn, cn, svc)
  \/ \E doc \in Uploads : Upload(doc)
  \/ \E K \in 1..4, svc \in Services : RunButton(K, svc)
  \/ \E K \in 1..4 : \E text \in EditTexts(K) : ApplyEdit(K, text)
  \/ Respond

SpecApp == InitApp /\ [][NextApp]_vars

\* =================================================================== claims

\* C1: in every bounded_gather batch, whatever its size and however its
\* calls interleave, the number of calls that have started and not yet ended
\* never exceeds limit.
C1_ConcurrencyCeiling ==
  \A r \in Reqs :
    req[r].kind = "gather" => Cardinality(InFlight(req[r])) <= limit

\* A batch larger than limit with limit calls in flight and a task queued.
C1_Witness ==
  \E r \in Reqs :
    /\ req[r].kind = "gather"
    /\ Len(req[r].task) > limit
    /\ Cardinality(InFlight(req[r])) = limit
    /\ req[r].waiters # <<>>

\* The number of units the page at position j of the run's input yields.
ExpectedUnits(rs, j) ==
  CASE rs.phase = 2 -> Len(rs.input.pages[j].data.categories)
    [] rs.phase = 3 -> Len(rs.input.pages[j].categories)
    [] rs.phase = 4 -> Min(Len(rs.input.pages[j].categories),
                           Len(rs.input2.pages[j].categories))

InputName(rs, j, i) ==
  IF rs.phase = 2 THEN rs.input.pages[j].data.categories[i].name_raw
                  ELSE rs.input.pages[j].categories[i].name_raw

\* C2: when every task of a batch has succeeded, bounded_gather returns the
\* result of the i-th submitted call at position i, whatever the completion
\* order; and the i-th category of each output page of stages 2..4 is the
\* answer to the call issued for the i-th input category of that page.
C2_OrderPreserved ==
  /\ \A r \in Reqs :
       (req[r].kind = "gather" /\ req[r].gathered = "returned") =>
         /\ Len(req[r].responses) = Len(req[r].task)
         /\ \A i \in 1..Len(req[r].task) :
              /\ req[r].responses[i] = req[r].task[i].result
              /\ req[r].responses[i] \in Outcomes(req[r].task[i].coro)
  /\ run.phase \in 2..4 =>
       \A j \in 1..Len(run.out) :
         /\ Len(run.out[j].categories) = ExpectedUnits(run, j)
         /\ \A i \in 1..Len(run.out[j].categories) :
              run.out[j].categories[i].name_raw = InputName(run, j, i)

\* A batch of a stage run whose calls ended in another order than they were
\* submitted in, with different answers, and which returned.
C2_Witness ==
  /\ run.phase \in 2..4
  /\ req[1].kind = "gather"
  /\ req[1].gathered = "returned"
  /\ Len(req[1].task) >= 2
  /\ req[1].order[1] # 1
  /\ req[1].responses[1] # req[1].responses[2]
  /\ \A i \in 1..Len(req[1].task) :
       UnitOk(StageClass(run.phase), run.extra, req[1].responses[i])

\* A unit of the batch whose call raised, or whose answer does not decode or
\* validate.
BadUnit(rs, b) ==
  \E i \in 1..Len(b.task) :
    \/ b.task[i].st = "raised"
    \/ /\ b.task[i].st = "returned"
       /\ ~UnitOk(StageClass(rs.phase), rs.extra, b.task[i].result)

\* C3: a stage run in which a unit's call raised, or a unit's answer failed
\* to decode or validate, ends as a failure with no artifact written; and an
\* artifact a run did write holds every unit of every page, never only the
\* units that succeeded.
C3_FailFast ==
  /\ (run.st = "raised" \/ (run.st = "await" /\ BadUnit(run, req[1]))) =>
       files[OutFile(run.phase)] = NoFile
  /\ files[OutFile(run.phase)] # NoFile =>
       /\ run.st = "returned"
       /\ files[OutFile(run.phase)].pages = run.out
       /\ IF run.phase = 1
            THEN Len(run.out) = run.doc.n
            ELSE /\ Len(run.out) = NumBatches(run)
                 /\ \A j \in 1..Len(run.out) :
                      Len(run.out[j].categories) = ExpectedUnits(run, j)

\* A run that failed although one unit of the failing batch had succeeded.
C3_Witness ==
  /\ run.st = "raised"
  /\ req[1].kind = "gather"
  /\ BadUnit(run, req[1])
  /\ \E i \in 1..Len(req[1].task) :
       /\ req[1].task[i].st = "returned"
       /\ UnitOk(StageClass(run.phase), run.extra, req[1].task[i].result)

\* C4: in the Streamlit app, right after a successful run of stage K or an
\* applied edit of its result (K = 1, 2, 3) no result of a later stage is in
\* the session; and a result of stage J comes into the session only by a
\* successful run of stage J.
C4_DownstreamCleared ==
  /\ [] ((/\ surface = "streamlit"
          /\ reply.op \in {"run", "edit"}
          /\ reply.status = 200
          /\ reply.phase \in 1..3) =>
           \A J \in (reply.phase + 1)..4 : files[OutFile(J)] = NoFile)
  /\ [][surface = "streamlit" =>
          \A J \in 1..4 :
            (files[OutFile(J)] = NoFile /\ files'[OutFile(J)] # NoFile) =>
              (reply'.op = "run" /\ reply'.phase = J /\ reply'.status = 200)]_vars

\* A run or an edit of stage 1 that cleared the results of stages 2, 3 and 4.
C4_Witness ==
  /\ surface = "streamlit"
  /\ reply.op \in {"run", "edit"}
  /\ reply.status = 200
  /\ reply.phase = 1
  /\ reply.cleared = {"items", "bases", "addons"}

\* C5: in the backend, a Stage-4 extraction requested when the Stage-2
\* artifact has been edited since the Stage-3 and Stage-4 artifacts were
\* written is refused with "Required file not found" and issues no call.
C5_InvalidationCascade ==
  (/\ surface = "backend"
   /\ reply.op = "run"
   /\ reply.phase = 4
   /\ "edit" \in reply.before["bases"]
   /\ "edit" \in reply.before["addons"]) =>
    (/\ reply.status = 400
     /\ reply.detail = "Required file not found"
     /\ ~reply.called)

\* C6: no stage run or re-extraction takes as input an artifact written
\* before the latest successful re-run of a stage upstream of it.
C6_NoStaleInput ==
  reply.op \in {"run", "reextract"} =>
    \A f \in reply.used : "run" \notin reply.before[f]

\* The artifacts a run of stage K reads, per application.
NeededBy(sf, K) ==
  CASE K = 2 -> {IF sf = "backend" THEN "reviewed" ELSE "categories", "pdf"}
    [] K = 3 -> {"items", "pdf"}
    [] K = 4 -> {"items", "bases", "pdf"}

\* C7: a run of stage K (K = 2, 3, 4) that issued a call found its
\* predecessor's artifact (for Stage 4 those of Stages 2 and 3) and the
\* document; when one of them is missing the run is refused - the backend
\* answers 400 with a not-found detail, the Streamlit button is disabled -
\* and no call is issued.
C7_PredecessorRequired ==
  (reply.op = "run" /\ reply.phase \in 2..4) =>
    LET need == NeededBy(surface, reply.phase) IN
    /\ reply.called => \A f \in need : files[f] # NoFile
    /\ (\E f \in need : files[f] = NoFile) =>
         /\ ~reply.called
         /\ IF surface = "backend"
              THEN /\ reply.status = 400
                   /\ reply.detail \in {"Required file not found", "PDF not found"}
              ELSE reply.detail = "disabled"

\* A Stage-4 extraction of the backend refused because the Stage-3 artifact
\* is missing, the Stage-2 artifact and the document being there.
C7_Witness ==
  /\ surface = "backend"
  /\ reply.op = "run"
  /\ reply.phase = 4
  /\ reply.status = 400
  /\ files["items"] # NoFile
  /\ files["pdf"] # NoFile
  /\ files["bases"] = NoFile

\* C8: the calls in flight in the process, over all handlers, never exceed
\* limit.
C8_GlobalCeiling ==
  Cardinality(InFlight(req[1])) + Cardinality(InFlight(req[2])) <= limit

\* C9: a re-extraction request, whatever its outcome, changes no stored
\* artifact; when it succeeds the service's answer validated against the
\* stage's model and the body returned is the dump of that one unit.
C9_ReextractFrame ==
  /\ [][reply'.op = "reextract" => files' = files]_vars
  /\ [] ((reply.op = "reextract" /\ reply.status = 200) =>
           LET cls == StageClass(reply.phase) IN
           /\ reply.called
           /\ reply.answer.tag = "json"
           /\ ModelValidate(cls, Extra(surface), reply.answer.body)
           /\ DOMAIN reply.body = Fields(cls)
           /\ \A k \in DOMAIN reply.answer.body \cap Fields(cls) :
                reply.body[k] = reply.answer.body[k])

\* A re-extraction of Stage 3 that succeeded, with the artifacts of Stages
\* 2, 3 and 4 stored.
C9_Witness ==
  /\ reply.op = "reextract"
  /\ reply.phase = 3
  /\ reply.status = 200
  /\ \A f \in {"items", "bases", "addons"} : files[f] # NoFile

\* The artifact has a page numbered pn with a category whose name_raw is cn.
HasUnit(phase, art, pn, cn) ==
  \E j \in 1..Len(art.pages) :
    /\ art.pages[j].page_number = pn
    /\ \E i \in 1..Len(PageCats(phase, art.pages[j])) :
         PageCats(phase, art.pages[j])[i].name_raw = cn

\* C10: a re-extraction whose input files exist gets past the search exactly
\* when the upstream artifact has the page and on it a category whose
\* name_raw is category_name; otherwise it answers 404 and issues no call.
C10_LocateByNameRaw ==
  (reply.op = "reextract" /\ reply.used # {}) =>
    LET present ==
          \A f \in reply.used \ {"pdf"} :
            HasUnit(reply.phase, files[f], reply.page_number, reply.category_name)
        located ==
          reply.detail \notin {"Page not found", "Category not found", "KeyError"}
    IN /\ present <=> located
       /\ ~present => (reply.status = 404 /\ ~reply.called)

\* C11: a Stage-4 re-extraction whose input files exist issues its call only
\* when the page of both the Stage-2 and the Stage-3 artifact has a category
\* whose name_raw is category_name, with a prompt carrying those two units;
\* when either is missing it answers 404 and issues no call.
C11_BothCounterparts ==
  (reply.op = "reextract" /\ reply.phase = 4 /\ reply.used # {}) =>
    LET both ==
          /\ HasUnit(4, files["items"], reply.page_number, reply.category_name)
          /\ HasUnit(4, files["bases"], reply.page_number, reply.category_name)
    IN /\ reply.called =>
            /\ both
            /\ reply.prompt.variables.category.category.name_raw
                 = reply.category_name
            /\ reply.prompt.variables.category_base.category_base.name_raw
                 = reply.category_name
       /\ ~both => (reply.status = 404 /\ ~reply.called)

\* The file an edit of stage K is stored in.
EditTarget(K) == IF surface = "backend" THEN UpdateTarget(K) ELSE OutFile(K)

\* C12: after an accepted edit of stage K's artifact every unit of the stored
\* envelope satisfies stage K's schema (a refused edit stores nothing).
C12_EditValidated ==
  (reply.op = "edit" /\ reply.status = 200
     /\ Has(files[EditTarget(reply.phase)], "pages")) =>
    \A i \in 1..Len(files[EditTarget(reply.phase)].pages) :
      LET page == files[EditTarget(reply.phase)].pages[i] IN
      Has(page, PageKey(reply.phase)) /\ PageValid(reply.phase, page)

\* The response is a JSON object that the strict schema of cls accepts once
\* one field, unknown to that schema, is taken away.
ExtraOnly(cls, resp) ==
  /\ resp.tag = "json"
  /\ \E f \in DOMAIN resp.body \ Fields(cls) :
       ModelValidate(cls, "forbid", Without(resp.body, f))

\* The response is a JSON object the strict schema of cls accepts.
StrictlyValid(cls, resp) ==
  resp.tag = "json" /\ ModelValidate(cls, "forbid", resp.body)

\* The unit the run stored for response i of its last validated batch.
StoredUnit(i) ==
  IF run.phase = 1 THEN run.out[i].data
                   ELSE run.out[Len(run.out)].categories[i]

\* C13: when a response of the batch a stage run has just validated is valid
\* except for one field unknown to the schema, the run has failed if the
\* schema is strict (extra = "forbid"); if it is lenient (extra = "ignore")
\* and the other responses are valid, the page is stored and the unit placed
\* in it has the schema's fields only, the unknown one gone.
C13_UnknownField ==
  LET cls == StageClass(run.phase) IN
  \A i \in 1..Len(run.responses) :
    ExtraOnly(cls, run.responses[i]) =>
      /\ run.extra = "forbid" => run.st = "raised"
      /\ (/\ run.extra = "ignore"
          /\ \A j \in 1..Len(run.responses) :
               \/ ExtraOnly(cls, run.responses[j])
               \/ StrictlyValid(cls, run.responses[j]))
         => /\ run.out # <<>>
            /\ DOMAIN StoredUnit(i) = Fields(cls)
            /\ \A k \in Fields(cls) \cap DOMAIN run.responses[i].body :
                 StoredUnit(i)[k] = run.responses[i].body[k]

\* A lenient run has stored a page from a batch with an unknown-field answer.
C13_Witness ==
  /\ run.extra = "ignore"
  /\ run.st \in {"loop", "returned"}
  /\ \E i \in 1..Len(run.responses) :
       ExtraOnly(StageClass(run.phase), run.responses[i])

\* No task index occurs twice in the sequence of issued calls.
IssuedOnce(started) ==
  \A k, l \in 1..Len(started) : started[k] = started[l] => k = l

\* C14: within one stage run the call of each unit (task i of the batch of
\* page pi) is issued at most once and no page gets a second batch; once the
\* run has failed it stays failed, no call is issued for it and no file is
\* written.
C14_NoRetry ==
  /\ [](/\ \A k \in 1..Len(run.log) : IssuedOnce(run.log[k].started)
        /\ \A k, l \in 1..Len(run.log) :
             run.log[k].pi = run.log[l].pi => k = l
        /\ req[1].kind = "gather" =>
             /\ IssuedOnce(req[1].started)
             /\ \A k \in 1..Len(run.log) : run.log[k].pi # run.pi)
  /\ [][run.st = "raised" =>
          /\ run'.st = "raised"
          /\ run'.log = run.log
          /\ req'[1].started = req[1].started
          /\ InFlight(req'[1]) \subseteq InFlight(req[1])
          /\ files' = files]_vars

\* A run that failed on a later page while a task of the batch had not yet
\* issued its call.
C14_Witness ==
  /\ run.st = "raised"
  /\ run.log # <<>>
  /\ req[1].kind = "gather"
  /\ \E i \in 1..Len(req[1].task) :
       /\ req[1].task[i].st = "cancelled"
       /\ \A k \in 1..Len(req[1].started) : req[1].started[k] # i

\* C15: once a Stage-1 run has stored its category tree (and the document is
\* there), a Stage-2 run is not refused for a missing input, whether or not
\* an edit of the tree was saved in between.
C15_EditOptional ==
  (/\ reply.op = "run" /\ reply.phase = 2
   /\ files["pdf"] # NoFile
   /\ files["categories"] # NoFile) =>
    reply.detail \notin {"Required file not found", "not found", "disabled"}

\* The batches of the run so far: the finished ones and the one in progress.
RunBatches ==
  Range(run.log) \cup
    (IF run.st = "await" THEN {Batch(run, req[1])} ELSE {})

\* C16: every batch of a Stage-2 run holds exactly one call per top-level
\* category of its page, in the page's order, each carrying that category,
\* and nothing else (no call of its own for a subcategory; no call at all for
\* a page without categories); when the batch is over each of these calls has
\* been issued once.
C16_OneCallPerCategory ==
  run.phase = 2 =>
    /\ \A b \in RunBatches :
         LET cats == run.input.pages[b.pi].data.categories IN
         /\ Len(b.coros) = Len(cats)
         /\ \A i \in 1..Len(cats) :
              /\ b.coros[i].prompt.template = "phase2.j2"
              /\ b.coros[i].prompt.variables.categories = cats[i]
         /\ Range(b.started) \subseteq 1..Len(cats)
         /\ IssuedOnce(b.started)
    /\ \A k \in 1..Len(run.log) :
         Len(run.log[k].started) = Len(run.log[k].coros)
    /\ run.st = "returned" =>
         \A p \in 1..Len(run.input.pages) : \E k \in 1..Len(run.log) :
            run.log[k].pi = p

\* A finished Stage-2 run over a page whose category has a subcategory and a
\* page without categories.
C16_Witness ==
  /\ run.phase = 2
  /\ run.st = "returned"
  /\ \E k \in 1..Len(run.log) : run.log[k].coros = <<>>
  /\ \E k \in 1..Len(run.log) :
       /\ run.log[k].coros # <<>>
       /\ run.log[k].coros[1].prompt.variables.categories.subcategories # <<>>

\* Where the last saved Stage-1 category tree is kept.
LatestTree == IF surface = "backend" THEN "reviewed" ELSE "categories"

\* The names of the top-level categories of a stored category tree.
TopNames(art) ==
  IF ~Has(art, "pages") THEN {}
  ELSE {n \in Names :
          \E i \in 1..Len(art.pages) :
            /\ Has(art.pages[i], "data")
            /\ Has(art.pages[i].data, "categories")
            /\ \E j \in 1..Len(art.pages[i].data.categories) :
                 /\ Has(art.pages[i].data.categories[j], "name_raw")
                 /\ art.pages[i].data.categories[j].name_raw = n}

\* C17: the calls of a Stage-2 run carry category names of the category tree
\* as last saved and no other name (after a saved rename of A to B: B, and
\* not A); a run that succeeds carries every name of that tree.
C17_LatestEditUsed ==
  (reply.op = "run" /\ reply.phase = 2) =>
    /\ reply.carried \subseteq TopNames(files[LatestTree])
    /\ reply.status = 200 => reply.carried = TopNames(files[LatestTree])

\* On the backend: Stage 1 produced a tree with A, the saved edit has B only,
\* and the Stage-2 run that followed carried B and not A.
C17_Witness ==
  /\ surface = "backend"
  /\ reply.op = "run" /\ reply.phase = 2 /\ reply.status = 200
  /\ "A" \in TopNames(files["categories"])
  /\ reply.carried = {"B"}

\* The stage whose artifact a file holds.
StageOf(f) ==
  CASE f \in {"categories", "reviewed"} -> 1
    [] f = "items" -> 2
    [] f = "bases" -> 3
    [] f = "addons" -> 4

\* restaurant_name and pages, every page with page_number and the payload
\* of the stage.
IsEnvelope(phase, art) ==
  /\ Has(art, "restaurant_name")
  /\ Has(art, "pages")
  /\ \A i \in 1..Len(art.pages) :
       Has(art.pages[i], "page_number") /\ Has(art.pages[i], PageKey(phase))

\* C18: every stored artifact of a stage, written by a stage run or by an
\* update request, has the envelope shape.
C18_EnvelopeShape ==
  \A f \in FileNames \ {"pdf"} :
    files[f] # NoFile => IsEnvelope(StageOf(f), files[f])

\* C19: in every bounded_gather batch a task holds a permit exactly while its
\* call is in flight (taken before the call is issued, given back when it
\* returns or raises), so the free permits and the calls in flight always add
\* up to limit, and when every task has ended all limit permits are free.
C19_PermitsConserved ==
  \A r \in Reqs :
    req[r].kind = "gather" =>
      /\ req[r].sem >= 0
      /\ req[r].sem + Cardinality(InFlight(req[r])) = limit
      /\ \A i \in InFlight(req[r]) :
           \E k \in 1..Len(req[r].started) : req[r].started[k] = i
      /\ Ended(req[r]) => req[r].sem = limit

\* A batch larger than limit that is over, one call having raised and one
\* having returned.
C19_Witness ==
  \E r \in Reqs :
    /\ req[r].kind = "gather"
    /\ Len(req[r].task) > limit
    /\ Ended(req[r])
    /\ \E i, j \in 1..Len(req[r].task) :
         req[r].task[i].st = "raised" /\ req[r].task[j].st = "returned"

\* The batch the validation loop has last worked on had a response that does
\* not decode or validate.
FailedBatch ==
  /\ run.st # "await"
  /\ \E i \in 1..Len(run.responses) :
       ~(/\ run.responses[i].tag = "json"
         /\ ModelValidate(StageClass(run.phase), run.extra,
                          run.responses[i].body))

\* C20: in a run of Stage 2, 3 or 4 the batches follow the pages one by one:
\* a batch for page p exists only when the batches of all pages before p are
\* over, every call of theirs ended and every response validated and stored;
\* after a batch with a failing response there is no batch for a later page,
\* and a failed run never moves to another page.
C20_PageBarrier ==
  /\ [](run.phase \in 2..4 =>
          /\ \A k \in 1..Len(run.log) :
               /\ run.log[k].pi = k
               /\ run.log[k].ended
               /\ Len(run.log[k].started) = Len(run.log[k].coros)
               /\ IF k = Len(run.log) /\ FailedBatch
                    THEN /\ run.st = "raised"
                         /\ req[1].kind = "idle"
                    ELSE /\ Len(run.out) >= k
                         /\ Len(run.out[k].categories) = Len(run.log[k].coros)
          /\ req[1].kind = "gather" =>
               /\ Len(run.log) = run.pi - 1
               /\ Len(run.out) = run.pi - 1)
  /\ [][run.st = "raised" =>
          /\ run'.pi = run.pi
          /\ req'[1].started = req[1].started]_vars

\* A call for the second page is in flight, the first page's batch having
\* been validated.
C20_Witness ==
  /\ run.phase \in 2..4
  /\ run.st = "await"
  /\ run.pi = 2
  /\ Len(run.log) = 1 /\ run.log[1].coros # <<>>
  /\ InFlight(req[1]) # {}

\* C21: a Stage-4 run never stores a page whose Stage-2 and Stage-3 category
\* lists differ in length (a run over such a page has failed instead).
C21_LengthMismatchFails ==
  run.phase = 4 =>
    \A j \in 1..Len(run.out) :
      Len(run.input.pages[j].categories) = Len(run.input2.pages[j].categories)

\* C22: once a call of a batch has failed, a call of that batch that is in
\* flight is never cancelled (it goes on until it returns or raises), and a
\* run in which a call failed writes no artifact.
C22_SiblingsFinish ==
  /\ [][\A i \in 1..Len(req[1].task) :
          (/\ req[1].gathered = "raised"
           /\ req[1].task[i].st = "running"
           /\ i \in 1..Len(req'[1].task))
            => req'[1].task[i].st \in {"running", "returned", "raised"}]_vars
  /\ [](files[OutFile(run.phase)] # NoFile => run.st = "returned")

\* C23: a Stage-1 run makes one batch only, holding one call per page of the
\* document (call i for page i), N calls in all once it is over; in a run of
\* Stage 2, 3 or 4 the calls in flight at any one time are for one page.
C23_PagesPerBatch ==
  /\ run.phase = 1 =>
       /\ Len(run.log) <= 1
       /\ run.st = "await" => run.log = <<>>
       /\ \A b \in RunBatches :
            /\ Len(b.coros) = run.doc.n
            /\ \A i \in 1..Len(b.coros) :
                 /\ b.coros[i].prompt.template = "phase1.j2"
                 /\ b.coros[i].prompt.page_number = i
            /\ IssuedOnce(b.started)
       /\ run.st = "returned" =>
            Len(run.log) = 1 /\ Len(run.log[1].started) = run.doc.n
  /\ run.phase \in 2..4 =>
       \A i, j \in InFlight(req[1]) :
         req[1].task[i].coro.prompt.page_number
           = req[1].task[j].coro.prompt.page_number

\* Calls for two different pages of a Stage-1 run are in flight together.
C23_Witness ==
  /\ run.phase = 1
  /\ \E i, j \in InFlight(req[1]) :
       req[1].task[i].coro.prompt.page_number
         # req[1].task[j].coro.prompt.page_number

\* The other name.
OtherName(n) == IF n = "A" THEN "B" ELSE "A"

\* The categories of a page with every one but the i-th renamed.
OthersRenamed(cats, i) ==
  [j \in 1..Len(cats) |->
     IF j = i THEN cats[j]
     ELSE [cats[j] EXCEPT !.name_raw = OtherName(cats[j].name_raw)]]

\* An artifact with the categories of page p changed by F and, when wipe is
\* set, the categories of every other page removed.
Changed(phase, art, p, F(_), wipe) ==
  [art EXCEPT !.pages =
     [q \in 1..Len(art.pages) |->
        LET cats == IF phase = 2 THEN art.pages[q].data.categories
                                 ELSE art.pages[q].categories
            new  == IF q = p THEN F(cats) ELSE IF wipe THEN <<>> ELSE cats
        IN IF phase = 2
             THEN [art.pages[q] EXCEPT !.data = [categories |-> new]]
             ELSE [art.pages[q] EXCEPT !.categories = new]]]

\* The run as it would be over inputs that agree with the real ones on unit i
\* of the current page: the other units of the page renamed, the units after
\* it dropped, the other pages emptied.
Variants(rs, i) ==
  LET Ren(cats)  == OthersRenamed(cats, i)
      Cut(cats)  == SubSeq(cats, 1, Min(i, Len(cats)))
      Same(cats) == cats
      With(F(_), wipe) ==
        [rs EXCEPT
           !.input  = Changed(rs.phase, rs.input, rs.pi, F, wipe),
           !.input2 = IF rs.phase = 4
                        THEN Changed(3, rs.input2, rs.pi, F, wipe)
                        ELSE rs.input2]
  IN {With(Ren, FALSE), With(Cut, FALSE), With(Same, TRUE), With(Ren, TRUE)}

\* C24: the prompt of a per-category call of Stage 2, 3 or 4 is the same
\* whatever the other categories of the page and of the other pages are: it
\* is the prompt the run would build for that unit over any input that agrees
\* on the restaurant name, the page number and that unit's upstream data.
\* The prompts of a batch are built before its first call is issued and stay
\* with their tasks, so they are compared when the batch has been handed over.
C24_PromptOfOneUnit ==
  (run.phase \in 2..4 /\ run.st = "await" /\ req[1].started = <<>>) =>
    \A i \in 1..Len(req[1].task) :
      \A alt \in Variants(run, i) :
        LET built == BuildCoros(alt) IN
        /\ built.ok
        /\ i <= Len(built.coros)
        /\ built.coros[i].prompt = req[1].task[i].coro.prompt

\* The calls of a page with two categories or more have been built, in a run
\* over more than one page.
C24_Witness ==
  /\ run.phase \in 2..4
  /\ run.st = "await"
  /\ req[1].started = <<>>
  /\ Len(req[1].task) >= 2
  /\ Len(run.input.pages) >= 2

\* The page numbers of an artifact, in its order.
PageNumbers(art) == [q \in 1..Len(art.pages) |-> art.pages[q].page_number]

\* C25: the artifact a stage run has written lists its pages in strictly
\* increasing page_number order, and the page numbers of a Stage-2 artifact
\* are page numbers of the Stage-1 artifact the run was given.
C25_PagesOrdered ==
  LET art == files[OutFile(run.phase)] IN
  (run.st = "returned" /\ art # NoFile) =>
    /\ \A q \in 1..(Len(art.pages) - 1) :
         art.pages[q].page_number < art.pages[q + 1].page_number
    /\ run.phase = 2 =>
         Range(PageNumbers(art)) \subseteq Range(PageNumbers(files["categories"]))

\* The calls of the run so far: those of the batches that are over and those
\* of the batch on the event loop.
RunCalls ==
  UNION {Range(b.coros) : b \in RunBatches}
    \cup {req[1].task[i].coro : i \in 1..Len(req[1].task)}

\* C26: a Stage-1 run gives its output pages the numbers 1..N, page j being
\* the answer of the call that carried the j-th image; and every call of a
\* stage run for a page number p with 1 <= p <= N carries the p-th image of
\* the document of the run.
C26_ImageOfPage ==
  /\ \A c \in RunCalls :
       LET p == c.prompt.page_number IN
       (1 <= p /\ p <= run.doc.n) => c.image = Image(run.doc.id, p)
  /\ (run.phase = 1 /\ run.st = "returned") =>
       LET art == files["categories"] IN
       /\ Len(art.pages) = run.doc.n
       /\ Len(run.log) = 1
       /\ \A j \in 1..Len(art.pages) :
            /\ art.pages[j].page_number = j
            /\ run.log[1].coros[j].image = Image(run.doc.id, j)
            /\ art.pages[j].data = ModelDump("Categories", run.responses[j].body)

\* A call of a Stage 2..4 run for the last page of the document is in flight.
C26_Witness ==
  /\ run.phase \in 2..4
  /\ run.doc.n >= 2
  /\ \E i \in InFlight(req[1]) :
       /\ req[1].task[i].coro.prompt.page_number = run.doc.n
       /\ req[1].task[i].coro.image.page = run.doc.n

\* C26, partial re-extraction: the call of a re-extraction of page p carries
\* the p-th image of the stored document.
C26_ReextractImage ==
  (reply.op = "reextract" /\ reply.called /\ 1 <= reply.page_number
     /\ reply.page_number <= files["pdf"].n)
    => reply.image = Image(files["pdf"].id, reply.page_number)

\* C27: when a stage run fails because of one unit, what the caller is told
\* names the page of the unit and, in Stages 2 to 4, its category.
C27_FailureNamesUnit ==
  (reply.op = "run" /\ reply.failed # NoUnit) =>
    /\ reply.shown.page_number = reply.failed.page_number
    /\ reply.shown.category = reply.failed.category

\* Where the report is given: a Streamlit run of Stage 2 failing at the
\* validation of a response names the page and the category.
C27_Named ==
  /\ reply.op = "run" /\ reply.phase = 2 /\ surface = "streamlit"
  /\ reply.failed.kind = "validation"
  /\ reply.shown = [page_number |-> reply.failed.page_number, category |-> 1]

\* C28: whatever the concurrency limit (zero or more), when every call ends
\* the stage run ends: it returns or it raises.
C28_RunEnds == <>(run.st \in {"returned", "raised"})

\* With one permit or more the run ends.
C28_RunEndsWithPermits == (limit >= 1) => <>(run.st \in {"returned", "raised"})

\* A batch with no permit at all: every task queued, none in flight, nothing
\* left that could release one.
C28_Stuck ==
  /\ limit = 0
  /\ run.st = "await"
  /\ req[1].task # <<>>
  /\ \A i \in 1..Len(req[1].task) : req[1].task[i].st = "waiting"

\* C29: a stage run that ends in failure leaves everything stored as it was
\* before the run: the uploaded document and the artifact of every stage.
C29_FailedRunFrame ==
  [][(reply = NoReply /\ reply'.op = "run" /\ reply'.status >= 400)
       => files' = files]_vars

\* The same of the stage artifacts alone.
C29_ArtifactsKept ==
  [][(reply = NoReply /\ reply'.op = "run" /\ reply'.status >= 400)
       => \A f \in FileNames \ {"pdf"} : files'[f] = files[f]]_vars

\* C30: in the Streamlit session, after any uploads, runs and applied edits,
\* a stage result is there only when the result of the stage before is there
\* and not empty, and the Stage-4 result only when the Stage-2 and Stage-3
\* results both are.
C30_SessionChain ==
  surface = "streamlit" =>
    /\ files["items"] # NoFile => files["categories"] # NoFile
    /\ files["bases"] # NoFile => files["items"] # NoFile
    /\ files["addons"] # NoFile =>
         (files["items"] # NoFile /\ files["bases"] # NoFile)

\* An edit has emptied the Stage-3 result while a Stage-4 result was there.
C30_Witness ==
  /\ surface = "streamlit"
  /\ reply.op = "edit" /\ reply.phase = 3 /\ reply.status = 200
  /\ files["bases"] = NoFile
  /\ "addons" \in reply.cleared

C32_SameUnitPaired ==
  run.phase = 4 =>
    \A b \in RunBatches :
      b.started # <<>> =>
        /\ run.input2.pages[b.pi].page_number = run.input.pages[b.pi].page_number
        /\ \A i \in Range(b.started) :
             LET v == b.coros[i].prompt.variables IN
             v.category.category.name_raw = v.category_base.category_base.name_raw

\* C33: the artifact of a successful Stage-4 run has one page entry for
\* every page of the Stage-2 artifact it was given, in its order, and on each
\* page one unit for every Stage-2 category of the page.
C33_NothingOmitted ==
  (run.phase = 4 /\ run.st = "returned") =>
    LET art == files["addons"] IN
    /\ Len(art.pages) = Len(run.input.pages)
    /\ \A j \in 1..Len(art.pages) :
         /\ art.pages[j].page_number = run.input.pages[j].page_number
         /\ Len(art.pages[j].categories) = Len(run.input.pages[j].categories)

\* C34: a successful run of Stage 2 or 3 writes the page_numbers of its input
\* in the input's order and, on each page, as many units as the input page
\* has categories, unit i being the dump of the answer to the call for
\* category i; a page without categories gets an entry with an empty list,
\* and its batch holds no call.
C34_UnitPerCategory ==
  run.phase \in 2..3 =>
    /\ (run.st = "loop" /\ run.pi > 1) =>
         LET j    == run.pi - 1
             page == run.out[j]
         IN
         /\ Len(run.out) = j
         /\ page.page_number = run.input.pages[j].page_number
         /\ Len(run.responses) = ExpectedUnits(run, j)
         /\ page.categories =
              [i \in 1..Len(run.responses) |->
                 ModelDump(StageClass(run.phase), run.responses[i].body)]
         /\ \A k \in 1..j : run.log[k].pi = k
         /\ run.log[j].coros = <<>> <=> ExpectedUnits(run, j) = 0
    /\ run.st = "returned" =>
         LET art == files[OutFile(run.phase)] IN
         /\ PageNumbers(art) = PageNumbers(run.input)
         /\ Len(run.log) = Len(run.input.pages)
         /\ \A j \in 1..Len(art.pages) :
              /\ Len(art.pages[j].categories) = ExpectedUnits(run, j)
              /\ Len(run.log[j].started) = ExpectedUnits(run, j)
              /\ \A i \in 1..ExpectedUnits(run, j) :
                   /\ art.pages[j].categories[i].name_raw = InputName(run, j, i)
                   /\ PromptName(run.log[j].coros[i].prompt) = InputName(run, j, i)

\* A finished run of Stage 2 or 3 over a page with several categories and a
\* page with none.
C34_Witness ==
  /\ run.phase \in 2..3
  /\ run.st = "returned"
  /\ \E j \in 1..Len(run.input.pages) : ExpectedUnits(run, j) = 0
  /\ \E j \in 1..Len(run.input.pages) : ExpectedUnits(run, j) >= 2
  /\ Len(files[OutFile(run.phase)].pages) = Len(run.input.pages)

\* C35: a stage run whose input names a page_number outside 1..N (N the
\* number of page images) issues no call for that page and does not succeed:
\* no call carries a page_number outside 1..N, and no artifact written by the
\* run has such a page.
C35_OutOfRangeFails ==
  run.phase \in 2..4 =>
    /\ \A b \in RunBatches :
         \A i \in Range(b.started) :
           b.coros[i].prompt.page_number \in 1..run.doc.n
    /\ run.st = "returned" =>
         \A j \in 1..Len(files[OutFile(run.phase)].pages) :
           files[OutFile(run.phase)].pages[j].page_number \in 1..run.doc.n

\* Where the index check does work: a page_number above N ends the run
\* before any call of the page.
C35_AboveRangeFails ==
  /\ run.phase \in 2..4
  /\ run.st = "raised"
  /\ run.log = <<>>
  /\ run.input.pages # <<>>
  /\ run.input.pages[1].page_number = run.doc.n + 1

\* C36: in the backend, right after a successful update of the artifact of
\* stage K (K = 1, 2, 3), the get endpoint of stage K answers with the
\* envelope the update saved.
C36_GetAfterUpdate ==
  [][(/\ surface = "backend"
      /\ reply = NoReply
      /\ reply'.op = "edit"
      /\ reply'.status = 200)
       => LoadJsonFile(files', GetTarget(reply'.phase))
            = [status |-> 200, data |-> files'[UpdateTarget(reply'.phase)]]]_vars

\* The same of Stages 2 and 3, whose update and get endpoints share a file.
C36_GetAfterUpdateLater ==
  [][(/\ surface = "backend"
      /\ reply = NoReply
      /\ reply'.op = "edit"
      /\ reply'.status = 200
      /\ reply'.phase \in 2..3)
       => LoadJsonFile(files', GetTarget(reply'.phase))
            = [status |-> 200, data |-> files'[UpdateTarget(reply'.phase)]]]_vars

\* C37: in the Streamlit app, once an upload of a document other than the
\* loaded one has been handled, no stage result is left in the session and
\* the page images are those of the uploaded document.
C37_UploadResets ==
  (surface = "streamlit" /\ reply.op = "upload") =>
    /\ \A f \in DownstreamKeys(0) : files[f] = NoFile
    /\ files["pdf"] = reply.body

\* Where the reset is made: an upload under another token has cleared
\* results of the document before.
C37_Reset ==
  /\ surface = "streamlit"
  /\ reply.op = "upload" /\ reply.status = 200
  /\ reply.cleared # {}
  /\ \A f \in DownstreamKeys(0) : files[f] = NoFile
  /\ files["pdf"] = reply.body

\* C38: in the Streamlit app, applying a text that is not valid JSON reports
\* an error and leaves the result of the edited stage and of every stage
\* after it as they were.
C38_InvalidEditKeeps ==
  [][(/\ surface = "streamlit"
      /\ reply = NoReply
      /\ reply'.op = "edit"
      /\ reply'.answer.tag # "json")
       => /\ reply'.status = 400
          /\ reply'.detail = "Invalid JSON"
          /\ \A f \in {OutFile(reply'.phase)} \cup DownstreamKeys(reply'.phase) :
               files'[f] = files[f]]_vars

\* A text that is not JSON has been applied to a stage whose successor has a
\* result.
C38_Witness ==
  /\ surface = "streamlit"
  /\ reply.op = "edit"
  /\ reply.answer = NotJson
  /\ reply.status = 400
  /\ reply.phase \in 1..3
  /\ files[OutFile(reply.phase)] # NoFile
  /\ files[OutFile(reply.phase + 1)] # NoFile
====
